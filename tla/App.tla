-------------------------------- MODULE App --------------------------------
(***************************************************************************)
(* The front end: one of its pages in one browser tab, whichever it is,    *)
(* and what must be true of all of them.  Between two pages nothing lives  *)
(* on but the session (see Sessions), so that a behaviour is one page from *)
(* its first render on.                                                    *)
(***************************************************************************)
EXTENDS UsersPages, IPRecordsPage, UnusedIPsPage, SubnetsPage, NetworkScanPage,
        PaloAltoPage, DashboardPage, IntegrationsPage, VaultPage, FilesPages

Init ==
    \/ UsersInit \/ IPRecords \/ UnusedIPs \/ Subnets \/ NetworkScan
    \/ PaloAltoCheck \/ Dashboard \/ Integrations \/ Vault \/ FilesInit

Next ==
    \/ UsersNext \/ RecordsNext \/ UnusedIPsNext \/ SubnetsNext \/ NetworkScanNext
    \/ PaloAltoNext \/ DashboardNext \/ IntegrationsNext \/ VaultNext \/ FilesNext

Spec == Init /\ [][Next]_web

---------------------------------------------------------------------------
(* What the pages say of themselves.                                       *)
Spinners ==
    UsersSpinners ++ RecordsSpinners ++ UnusedIPsSpinners ++ SubnetsSpinners ++ NetworkScanSpinners
    ++ PaloAltoSpinners ++ DashboardSpinners ++ IntegrationsSpinners ++ VaultSpinners ++ FilesSpinners

Wanted ==
    CASE ui.page \in DOMAIN UsersSpinners -> UsersWanted
      [] ui.page = "IPRecordsPage" -> RecordsWanted
      [] ui.page = "UnusedIPsPage" -> UnusedIPsWanted
      [] ui.page = "SubnetsPage" -> SubnetsWanted
      [] ui.page = "PaloAltoPage" -> PaloAltoWanted
      [] ui.page = "DashboardPage" -> DashboardWanted
      [] ui.page = "IntegrationsPage" -> IntegrationsWanted
      [] ui.page = "VaultPage" -> VaultWanted
      [] ui.page \in DOMAIN FilesSpinners -> FilesWanted
      [] OTHER -> {}

Required ==
    [p \in DOMAIN UsersSpinners |-> UsersRequired] ++ [p \in DOMAIN FilesSpinners |-> FilesRequired]
    ++ [IPRecordsPage |-> RecordsRequired, UnusedIPsPage |-> UnusedIPsRequired,
        SubnetsPage |-> SubnetsRequired, NetworkScanPage |-> NetworkScanRequired,
        PaloAltoPage |-> PaloAltoRequired, DashboardPage |-> DashboardRequired,
        IntegrationsPage |-> IntegrationsRequired, VaultPage |-> VaultRequired]

\* Commands that are offered whatever the role (DuplicatesModal.tsx,
\* ExportModal.tsx, the import and the new subnet of NetworkScanPage.tsx, the
\* cross check of PaloAltoCheckPage.tsx, both dialogs that share): the user
\* who may not is told by the server.
OfferedToAll ==
    [p \in DOMAIN Spinners |->
        CASE p = "IPRecordsPage" -> {"handleExport", "fetchDuplicates", "runScan"}
          [] p = "DashboardPage" -> {"fetchDuplicates", "runScan"}
          [] p = "NetworkScanPage" -> {"handleImport", "createSubnet"}
          [] p = "PaloAltoPage" -> {"runCrossCheck"}
          [] p = "VaultPage" -> {"createShare", "revokeShare"}
          [] p = "FilesPage" -> {"createFileShare", "revokeFileShare"}
          [] OTHER -> {}]

---------------------------------------------------------------------------
\* What the code leaves on the screen when a request of the page has changed it:
\* per read, the requests (and what they were answered) after which it is not
\* loaded again.
LeftBehind ==
    (CASE ui.page = "IPRecordsPage" ->
            \* DuplicatesModal.tsx loads the duplicates, and not the table behind it; both
            \* dialogs load nothing if no update is reported, whatever else was written.
            [fetchRecords |-> {<<"runScan", "ok">>, <<"runScan", "same">>, <<"runCheck", "same">>}]
       [] ui.page = "DashboardPage" ->
            \* The same; here the statistics are what is behind the duplicates.
            [fetchStats |-> {<<"runScan", "same">>}
                            \cup IF ui.tool = "duplicates" THEN {<<"runScan", "ok">>} ELSE {}]
       [] ui.page = "PaloAltoPage" ->
            \* The list of recent checks waits for its button.
            [loadRecent |-> {<<"runPaloAltoCheck", "ok">>, <<"runBulkScan", "ok">>}]
       [] ui.page = "VaultPage" ->
            \* The link that was revoked is taken off here; it is there again with the
            \* next load.
            [fetchShares |-> {<<"revokeShare", "ok">>}]
       [] ui.page = "FilesPage" ->
            \* A file that destroys itself stays on the list.  Of one that waits for its
            \* scan the interval takes care.
            [fetchFiles |-> {<<"download", "ok">>} \cup IF ui.pending THEN {<<"scanEnds", "ok">>} ELSE {},
             fetchFileShares |-> {<<"revokeFileShare", "ok">>}]
       [] OTHER -> <<>>)
    ++ [f \in DOMAIN shown |-> {}]

\* When every request is answered and none failed, a user who let one answer
\* come before the next click sees, for the filters, the page and the subject
\* that are chosen, what the server holds, as far as the page's own requests
\* changed it and but for what LeftBehind says: handlers load again what they
\* changed, with the query that is chosen, and when a handler, an effect and a
\* timer ask the same thing twice the older answer does not stay (fetchUsers,
\* fetchRecords, fetchTree, ... of each page and the effects that call them).
\* Wanted leaves out a list that waits for a debounce, and the entries of a
\* folder that was chosen on page 2 (PasswordTable.tsx asks for both pages).
UpToDate ==
    calm /\ calls = {} =>
        \A w \in Wanted :
            shown[w.fn].q = w.q /\ shown[w.fn].x = w.x /\ shown[w.fn].since \subseteq LeftBehind[w.fn]

\* A spinner turns only while a request is under way that will end it, on
\* every way out of every handler, aborts, failures and closed dialogs
\* included: no page waits for nothing, with its button out of order.
NoDeadSpinner ==
    \A f \in DOMAIN Spinners[ui.page] \cap DOMAIN ui : ui[f] => InFlight(Spinners[ui.page][f])

\* A command that is guarded by a spinner is not sent a second time while the
\* first is under way.  Enter on the page of a link is not guarded.
SentOnce ==
    \A f \in DOMAIN Spinners[ui.page] :
        Cardinality({c \in calls : c.fn \in Spinners[ui.page][f] \ (DOMAIN shown \cup {"unlock"})}) <= 1

\* No page sends a request that the server refuses to the role of the session
\* (hasRole in the pages, require_role in the routers), but for OfferedToAll.
AllowedByServer ==
    \A c \in calls :
        c.fn \in DOMAIN Required[ui.page] \ OfferedToAll[ui.page] => hasRole(Required[ui.page][c.fn])
=============================================================================
