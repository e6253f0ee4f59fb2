----------------------------- MODULE VaultPage -----------------------------
(***************************************************************************)
(* VaultPage.tsx: the list of cabinets, or the folders and the entries of  *)
(* the one that is open.  Rows are cabinets, folders, entries and links.   *)
(* FolderTree and PasswordTable load on their own; what one changes the    *)
(* other learns through VaultPage, or not at all.                          *)
(*                                                                         *)
(* Bounds: one of VaultTools and one cabinet to open in a session (what    *)
(* the next one needs is mounted anew), MaxTimers intervals at once.       *)
(***************************************************************************)
EXTENDS Browser

MaxTimers == 2

VaultTools ==
    [cabinets |-> [modalOpen |-> FALSE, editing |-> None, saving |-> FALSE],
     folders |-> [addingIn |-> None, editing |-> None],
     entries |-> [modalOpen |-> FALSE, saving |-> FALSE],
     reveal |-> [revealed |-> None, revealing |-> None, timers |-> 0, timerRef |-> FALSE, copyingId |-> None],
     shares |-> [shareEntry |-> None, sharesLoading |-> FALSE, creating |-> FALSE],
     drag |-> [dragging |-> None]]

NoCabinet == [cabinet |-> None, folder |-> "all", pageNum |-> 1, doubled |-> FALSE, loading |-> FALSE]
FetchCabinets == {Req("fetchCabinets", None, None)}

Vault ==
    \E t \in DOMAIN VaultTools :
        Mount([page |-> "VaultPage", tool |-> t, cabinetsLoading |-> TRUE] ++ NoCabinet ++ VaultTools[t],
              FetchCabinets, {"fetchCabinets", "fetchFolders", "fetchEntries", "fetchShares"})

canEdit == hasRole("Operator")
NoDialog ==
    CASE ui.tool \in {"cabinets", "entries"} -> ~ui.modalOpen
      [] ui.tool = "shares" -> ui.shareEntry = None
      [] OTHER -> TRUE
AtList == ui.cabinet = None /\ NoDialog
AtCabinet == ui.cabinet # None /\ NoDialog

---------------------------------------------------------------------------
(* VaultPage.tsx: what is mounted.  The rest goes, with its cells and the  *)
(* handlers that await an answer.                                          *)
Tool == VaultTools[ui.tool]
ListFns == {"fetchCabinets", "fetchUsers", "saveCabinet", "deleteCabinet"}
CabinetFns ==
    {"fetchFolders", "createFolder", "renameFolder", "deleteFolder", "fetchEntries", "fetchOptions", "saveEntry",
     "deleteEntry", "reveal", "copyPassword", "fetchShares", "reloadShares", "createShare", "revokeShare"}

EntriesQuery == <<ui.cabinet, ui.pageNum, ui.folder>>
FetchEntries(q) == {Req("fetchEntries", q, None)}
FetchFolders(c) == {Req("fetchFolders", None, c)}

handleSelectCabinet ==
    LET c == CHOOSE c \in Rows : TRUE
    IN  /\ AtList /\ c \in Rows
        /\ AbortClearing({"fetchCabinets"}, ListFns,
                         [cabinet |-> c, loading |-> TRUE, cabinetsLoading |-> FALSE] ++ Tool,
                         FetchFolders(c) \cup FetchEntries(<<c, 1, "all">>))

handleBack ==
    /\ AtCabinet
    /\ AbortClearing({"fetchFolders", "fetchEntries"}, CabinetFns,
                     [cabinetsLoading |-> TRUE] ++ NoCabinet ++ Tool, FetchCabinets)

---------------------------------------------------------------------------
(* CabinetList.tsx, CabinetModal.tsx                                       *)
fetchCabinets ==
    \/ Show("fetchCabinets", [cabinetsLoading |-> FALSE])
    \/ Fails("fetchCabinets", [cabinetsLoading |-> FALSE])

ReloadCabinets(c, cells) == Settle(c, cells ++ [cabinetsLoading |-> TRUE], FetchCabinets)

\* Who may manage the members also fetches the users.
openCabinet ==
    \E c \in Rows \cup {None}, manages \in BOOLEAN :
        /\ AtList /\ hasRole("Administrator")
        /\ hasRole("SuperAdmin") => manages
        /\ Act([modalOpen |-> TRUE, editing |-> c], IF manages THEN {Req("fetchUsers", None, c)} ELSE {})

fetchCabinetUsers == \E c \in Ok("fetchUsers") \cup Failed("fetchUsers") : Settle(c, <<>>, {})

\* An update is one request after the other; when one fails, those before it
\* have been carried out and the list is not loaded again.
NextStep(step) ==
    CASE step = "update" -> {"addMembers", "removeMember"} [] step = "addMembers" -> {"removeMember"} [] OTHER -> {}

saveCabinet ==
    \/ /\ ui.modalOpen /\ ~ui.saving
       /\ Act([saving |-> TRUE],
              {Req("saveCabinet", IF ui.editing = None THEN "create" ELSE "update", ui.editing)})
    \/ \E c \in Ok("saveCabinet") :
          \/ \E step \in NextStep(c.q) : Settle(c, <<>>, {Req("saveCabinet", step, c.x)})
          \/ ReloadCabinets(c, [modalOpen |-> FALSE, saving |-> FALSE])
    \/ Fails("saveCabinet", [saving |-> FALSE])

deleteCabinet ==
    \/ \E c \in Rows : AtList /\ hasRole("SuperAdmin") /\ Act(<<>>, {Req("deleteCabinet", None, c)})
    \/ \E c \in Ok("deleteCabinet") : ReloadCabinets(c, <<>>)
    \/ Fails("deleteCabinet", <<>>)

closeModal == ui.modalOpen /\ Act([modalOpen |-> FALSE], {})

---------------------------------------------------------------------------
(* PasswordTable.tsx                                                       *)
fetchEntries ==
    \/ Show("fetchEntries", [loading |-> FALSE])
    \/ Fails("fetchEntries", [loading |-> FALSE])

\* Page and folder set off one effect, the folder also another that resets
\* the page: from page 2 both pages are asked for, and the later answer
\* stays.  clearReveal stops the interval it knows of.
Cleared ==
    IF ui.tool # "reveal" THEN <<>>
    ELSE [revealed |-> None, revealing |-> None, timerRef |-> FALSE,
          timers |-> IF ui.timerRef THEN ui.timers - 1 ELSE ui.timers]
FolderCells(f) == [folder |-> f, pageNum |-> 1, loading |-> TRUE, doubled |-> ui.pageNum = 2] ++ Cleared
FolderFetches(f) == FetchEntries(<<ui.cabinet, ui.pageNum, f>>) \cup FetchEntries(<<ui.cabinet, 1, f>>)

selectFolder ==
    \E f \in ({"all"} \cup Rows) \ {ui.folder} : AtCabinet /\ Act(FolderCells(f), FolderFetches(f))

setEntriesPage ==
    \E p \in PageNos(IF ui.folder = "all" THEN "all" ELSE "some") \ {ui.pageNum} :
        /\ AtCabinet
        /\ Act([pageNum |-> p, loading |-> TRUE, doubled |-> FALSE], FetchEntries(<<ui.cabinet, p, ui.folder>>))

ReloadEntries(fn, cells) == \E c \in Ok(fn) : Settle(c, cells ++ [loading |-> TRUE], FetchEntries(c.q))

deleteEntry ==
    \/ AtCabinet /\ canEdit /\ Act(<<>>, {Req("deleteEntry", EntriesQuery, None)})
    \/ ReloadEntries("deleteEntry", <<>>)
    \/ Fails("deleteEntry", <<>>)

\* PasswordEntryModal.tsx loads the folders to choose from.
openEntry == AtCabinet /\ canEdit /\ Act([modalOpen |-> TRUE], {Req("fetchOptions", None, None)})

fetchOptions == \E c \in Ok("fetchOptions") \cup Failed("fetchOptions") : Settle(c, <<>>, {})

saveEntry ==
    \/ ui.modalOpen /\ ~ui.saving /\ Act([saving |-> TRUE], {Req("saveEntry", EntriesQuery, None)})
    \/ ReloadEntries("saveEntry", [modalOpen |-> FALSE, saving |-> FALSE])
    \/ Fails("saveEntry", [saving |-> FALSE])

---------------------------------------------------------------------------
(* FolderTree.tsx                                                          *)
fetchFolders == Show("fetchFolders", <<>>) \/ Fails("fetchFolders", <<>>)
ReloadFolders(c, cells) == Settle(c, cells, FetchFolders(c.x))

startAdding == \E f \in Rows \cup {"root"} : AtCabinet /\ canEdit /\ Act([addingIn |-> f], {})
startRenaming == \E f \in Rows : AtCabinet /\ canEdit /\ Act([editing |-> f], {})

\* Enter sends, and so does the loss of the focus; an empty name ends it.
createFolder ==
    \/ ui.addingIn # None /\ Act([addingIn |-> None], {})
    \/ ui.addingIn # None /\ Act(<<>>, {Req("createFolder", None, ui.cabinet)})
    \/ \E c \in Ok("createFolder") : ReloadFolders(c, [addingIn |-> None])
    \/ Fails("createFolder", <<>>)

renameFolder ==
    \/ ui.editing # None /\ Act([editing |-> None], {})
    \/ ui.editing # None /\ Act(<<>>, {Req("renameFolder", None, ui.cabinet)})
    \/ \E c \in Ok("renameFolder") : ReloadFolders(c, [editing |-> None])
    \/ Fails("renameFolder", <<>>)

\* q: the folder, and whether it was selected when the button was rendered.
deleteFolder ==
    \/ \E f \in Rows :
          AtCabinet /\ canEdit /\ Act(<<>>, {Req("deleteFolder", <<f, ui.folder = f>>, ui.cabinet)})
    \/ \E c \in Ok("deleteFolder") :
          IF c.q[2] /\ ui.folder # "all"
          THEN Settle(c, FolderCells("all"), FetchFolders(c.x) \cup FolderFetches("all"))
          ELSE ReloadFolders(c, <<>>)
    \/ Fails("deleteFolder", <<>>)

\* A drop on a folder, or on all entries, moves the entry; then the table
\* loads what it shows by then.
drag == \E e \in Rows \cup {None} : AtCabinet /\ canEdit /\ Act([dragging |-> e], {})

handleDropToFolder ==
    \/ AtCabinet /\ ui.dragging # None /\ Act([dragging |-> None], {Req("move", None, ui.dragging)})
    \/ \E c \in Ok("move") :
          IF ui.cabinet = None THEN Settle(c, [dragging |-> None], {})
          ELSE Settle(c, [dragging |-> None, loading |-> TRUE], FetchEntries(EntriesQuery))
    \/ Fails("move", [dragging |-> None])

---------------------------------------------------------------------------
(* useReveal.ts.  timers counts the intervals that run; timerRef knows of  *)
(* the last one.                                                           *)
revealPassword ==
    \/ \E e \in Rows :
          /\ AtCabinet /\ ui.revealed # e /\ ui.revealing # e /\ ui.timers < MaxTimers
          /\ Act([Cleared EXCEPT !.revealing = e], {Req("reveal", None, e)})
    \/ \E c \in Ok("reveal") :
          Settle(c, [revealed |-> c.x, revealing |-> None, timers |-> ui.timers + 1, timerRef |-> TRUE], {})
    \/ Fails("reveal", [revealed |-> None, revealing |-> None])

clearReveal == ui.revealed # None /\ Act(Cleared, {})

\* The seconds are up; an interval nobody knows of goes on.
secondsUp == ui.timers > 0 /\ Fire(Cleared, {})

copyPassword ==
    \/ \E e \in Rows \ {ui.copyingId} :
          AtCabinet /\ ui.revealed # e /\ Act([copyingId |-> e], {Req("copyPassword", None, e)})
    \/ Done("copyPassword", [copyingId |-> None])
    \/ Fails("copyPassword", [copyingId |-> None])

---------------------------------------------------------------------------
(* ShareModal.tsx: it is mounted while an entry is shared.                 *)
FetchShares(e) == {Req("fetchShares", None, e)}

openShares ==
    \E e \in Rows : AtCabinet /\ Act([shareEntry |-> e, sharesLoading |-> TRUE], FetchShares(e))

closeShares ==
    /\ ui.shareEntry # None
    /\ AbortClearing({"fetchShares"}, {"fetchShares", "reloadShares", "createShare", "revokeShare"}, VaultTools["shares"], {})

fetchShares ==
    \/ Show("fetchShares", [sharesLoading |-> FALSE])
    \/ Fails("fetchShares", [sharesLoading |-> FALSE])

\* handleCreate awaits the list too.
createShare ==
    \/ /\ ui.shareEntry # None /\ ~ui.creating
       /\ Act([creating |-> TRUE], {Req("createShare", None, ui.shareEntry)})
    \/ \E c \in Ok("createShare") : Settle(c, [sharesLoading |-> TRUE], {Req("reloadShares", None, c.x)})
    \/ \E c \in Ok("reloadShares") :
          Display(c, "fetchShares", [sharesLoading |-> FALSE, creating |-> FALSE], {})
    \/ Fails("createShare", [creating |-> FALSE])
    \/ Fails("reloadShares", [sharesLoading |-> FALSE, creating |-> FALSE])

\* The link is taken off the list here, which is not loaded again.
revokeShare ==
    \/ \E s \in Rows : ui.shareEntry # None /\ Act(<<>>, {Req("revokeShare", None, ui.shareEntry)})
    \/ Done("revokeShare", <<>>)
    \/ Fails("revokeShare", <<>>)

---------------------------------------------------------------------------
VaultToolNext ==
    CASE ui.tool = "cabinets" -> openCabinet \/ fetchCabinetUsers \/ saveCabinet \/ deleteCabinet \/ closeModal
      [] ui.tool = "folders" -> startAdding \/ startRenaming \/ createFolder \/ renameFolder \/ deleteFolder
      [] ui.tool = "entries" -> setEntriesPage \/ deleteEntry \/ openEntry \/ fetchOptions \/ saveEntry \/ closeModal
      [] ui.tool = "reveal" -> revealPassword \/ clearReveal \/ secondsUp \/ copyPassword
      [] ui.tool = "shares" -> openShares \/ closeShares \/ fetchShares \/ createShare \/ revokeShare
      [] ui.tool = "drag" -> drag \/ handleDropToFolder

\* deleteFolder deletes folders: the entries keep the id of theirs, which is what
\* the table shows of it, and a revoked link stays on the list of the server.
VaultTouches ==
    [fn \in {"saveCabinet", "deleteCabinet"} |-> {"fetchCabinets"}]
    ++ [fn \in {"saveEntry", "deleteEntry", "move"} |-> {"fetchEntries"}]
    ++ [fn \in {"createFolder", "renameFolder", "deleteFolder"} |-> {"fetchFolders"}]
    ++ [fn \in {"createShare", "revokeShare"} |-> {"fetchShares", "reloadShares"}]
\* routers/cabinets.py, folders.py, passwords.py
VaultRequired ==
    [fn \in {"fetchCabinets", "fetchFolders", "fetchEntries", "fetchOptions", "reveal", "copyPassword",
             "fetchShares", "reloadShares"} |-> "Viewer"]
    ++ [fn \in {"createFolder", "renameFolder", "deleteFolder", "saveEntry", "deleteEntry", "move",
                "createShare", "revokeShare"} |-> "Operator"]
    ++ [fn \in {"fetchUsers", "saveCabinet"} |-> "Administrator"]
    ++ [deleteCabinet |-> "SuperAdmin"]
VaultSpinners ==
    [VaultPage |->
        [cabinetsLoading |-> {"fetchCabinets"}, loading |-> {"fetchEntries"},
         saving |-> {"saveCabinet", "saveEntry"}, sharesLoading |-> {"fetchShares", "reloadShares"},
         creating |-> {"createShare", "reloadShares"}]]
VaultWanted ==
    IF ui.cabinet = None THEN FetchCabinets
    ELSE FetchFolders(ui.cabinet)
         \cup (IF ui.doubled THEN {} ELSE FetchEntries(EntriesQuery))
         \cup (IF ui.tool = "shares" /\ ui.shareEntry # None THEN FetchShares(ui.shareEntry) ELSE {})

VaultNext ==
    /\ ui.page = "VaultPage"
    /\ \/ handleSelectCabinet \/ handleBack \/ fetchCabinets \/ fetchEntries \/ fetchFolders \/ selectFolder
       \/ VaultToolNext \/ Serve(VaultTouches, <<>>) \/ Refuse
=============================================================================
