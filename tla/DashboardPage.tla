--------------------------- MODULE DashboardPage ---------------------------
(***************************************************************************)
(* DashboardPage.tsx: the statistics, the list of stale records with its   *)
(* bulk scan, and the duplicates.  While the statistics load the page is   *)
(* a spinner, and its dialogs are unmounted with the rest.                 *)
(***************************************************************************)
EXTENDS RecordDialogs

DashboardTools == [stale |-> [staleModalOpen |-> FALSE] ++ ScanCells, duplicates |-> DuplicatesCells]

FetchStats == {Req("fetchStats", None, None)}

Dashboard ==
    \E t \in DOMAIN DashboardTools :
        Mount([page |-> "DashboardPage", tool |-> t, stats |-> FALSE] ++ Loading ++ DashboardTools[t],
              FetchStats \cup {Req("fetchDigest", None, None)},
              {"fetchStats", "fetchDigest", "fetchDuplicates"})

fetchDigest == Show("fetchDigest", <<>>) \/ Fails("fetchDigest", <<>>)

\* A bulk scan that is open is mounted anew, and starts anew if it is small.
Remounted ==
    IF ui.tool = "duplicates" \/ ui.scanIds = None THEN <<>>
    ELSE [started |-> ~needsConfirm(ui.scanIds), agreed |-> FALSE]
ScannedAgain ==
    IF ui.tool = "duplicates" \/ ui.scanIds = None \/ needsConfirm(ui.scanIds) THEN {}
    ELSE {Req("runScan", None, ui.scanIds)}

fetchStats ==
    \/ \E c \in Ok("fetchStats") :
          Display(c, "fetchStats", [loading |-> FALSE, stats |-> TRUE] ++ Remounted, ScannedAgain)
    \/ \E c \in Failed("fetchStats") : Settle(c, [loading |-> FALSE] ++ Remounted, ScannedAgain)

---------------------------------------------------------------------------
Shown == ~ui.loading /\ ui.stats

openStale == ~ui.staleModalOpen /\ Act([staleModalOpen |-> TRUE], {})
closeStale == ui.staleModalOpen /\ ui.scanIds = None /\ Act([staleModalOpen |-> FALSE], {})
scanStale == ui.staleModalOpen /\ ui.scanIds = None /\ openScan(None)

\* The number of duplicate hostnames opens them.
DuplicateHostnames == ~ui.duplicatesOpen /\ openDuplicates

DashboardToolNext ==
    /\ Shown
    /\ CASE ui.tool = "stale" -> openStale \/ closeStale \/ scanStale \/ ScanNext(None, Loading, "fetchStats")
         [] ui.tool = "duplicates" -> DuplicateHostnames \/ DuplicatesNext

DashboardTouches == [runScan |-> {"fetchStats", "fetchDuplicates"}]
\* The statistics count the power states.
DashboardMaybe == [runScan |-> {"fetchStats"}]
\* routers/stats.py, assistant.py, ip_records.py
DashboardRequired ==
    [fn \in {"fetchStats", "fetchDigest"} |-> "Viewer"]
    ++ [fetchDuplicates |-> "Operator", runScan |-> "Administrator"]
DashboardSpinners ==
    [DashboardPage |-> [loading |-> {"fetchStats"}, duplicatesLoading |-> {"fetchDuplicates"}]]
DashboardWanted ==
    {Req("fetchDigest", None, None)} \cup FetchStats
    \cup (IF ui.tool = "duplicates" /\ ui.duplicatesOpen THEN FetchDuplicates ELSE {})

DashboardNext ==
    /\ ui.page = "DashboardPage"
    /\ \/ fetchDigest \/ fetchStats \/ DashboardToolNext
       \/ Serve(DashboardTouches, DashboardMaybe) \/ Refuse
=============================================================================
