--------------------------- MODULE IPRecordsPage ---------------------------
(***************************************************************************)
(* IPRecordsPage.tsx with its dialogs ExportModal, ImportModal,            *)
(* IPRecordHistoryDrawer, and those of RecordDialogs.  ui.open is the set  *)
(* of its own dialogs that are open; dialogs are modal, so the table takes *)
(* clicks only when none is.                                               *)
(*                                                                         *)
(* A bound: in one session the user works with the table and one of        *)
(* RecordsTools, and ui has the cells of that tool.                        *)
(***************************************************************************)
EXTENDS RecordDialogs

RecordsTools ==
    [edit |-> [editingRecord |-> None, submitting |-> FALSE, quickSubnetSubmitting |-> FALSE],
     bulk |-> [selectedRowKeys |-> {}, bulkSubmitting |-> FALSE],
     export |-> [exportFilter |-> "all", exporting |-> FALSE],
     import |-> [fileList |-> FALSE, importing |-> FALSE, result |-> FALSE, templateLoading |-> FALSE],
     history |-> [historyRecord |-> None, historyLoading |-> FALSE],
     check |-> CheckCells,
     duplicates |-> DuplicatesCells]

\* The dialog to create a record is open at once on the link of Unused IPs,
\* which an Administrator sees.
IPRecords ==
    \E t \in DOMAIN RecordsTools, dialogs \in {{}, {"edit"}} :
        /\ dialogs = {} \/ (t = "edit" /\ role \in AtLeast("Administrator"))
        /\ Mount([page |-> "IPRecordsPage", tool |-> t, currentPage |-> 1, filter |-> "all",
                  loading |-> TRUE, open |-> dialogs] ++ RecordsTools[t],
                 {Req("fetchSubnets", None, None), Req("fetchRecords", <<1, "all">>, None)},
                 {"fetchSubnets", "fetchRecords", "fetchHistory", "fetchDuplicates", "runCheck"})

Showing(cell) == cell \in DOMAIN ui /\ ui[cell] # None
AtTable ==
    ui.open = {} /\ ~Showing("historyRecord") /\ ~Showing("checkAvailRecord")
        /\ (ui.tool = "duplicates" => ~ui.duplicatesOpen)

Query == <<ui.currentPage, ui.filter>>
FetchRecords(q) == {Req("fetchRecords", q, None)}

fetchSubnets ==
    \/ Show("fetchSubnets", <<>>)
    \/ Fails("fetchSubnets", <<>>)

fetchRecords ==
    \/ AtTable /\ ~ui.loading /\ Act(Loading, FetchRecords(Query))
    \/ Show("fetchRecords", [loading |-> FALSE])
    \/ Fails("fetchRecords", [loading |-> FALSE])

\* A filter or a search starts again at the first page; the effect on the
\* page and the filters fetches.
handleFilterChange ==
    \E f \in Filters \ {ui.filter} :
        AtTable /\ Act([filter |-> f, currentPage |-> 1] ++ Loading, FetchRecords(<<1, f>>))

handleTableChange ==
    \E p \in PageNos(ui.filter) \ {ui.currentPage} :
        AtTable /\ Act([currentPage |-> p] ++ Loading, FetchRecords(<<p, ui.filter>>))

---------------------------------------------------------------------------
(* Create and edit, and a subnet for an address that lies in none.         *)
Editor == hasRole("Administrator")
Open(d) == [open |-> ui.open \cup {d}]
Shut(d) == [open |-> ui.open \ {d}]

openCreateOrEdit ==
    \E r \in Rows \cup {None} : AtTable /\ Editor /\ Act([editingRecord |-> r] ++ Open("edit"), {})

cancelEdit == ui.open = {"edit"} /\ Act(Shut("edit"), {})

\* The query of the list is captured when the form is sent.
ReloadRecords(fn, cells) == \E c \in Ok(fn) : Settle(c, cells ++ Loading, FetchRecords(c.q))

\* The server's "not within" opens the quick dialog.
handleSubmit ==
    \/ /\ ui.open = {"edit"} /\ ~ui.submitting
       /\ Act([submitting |-> TRUE], {Req("handleSubmit", Query, ui.editingRecord)})
    \/ ReloadRecords("handleSubmit", [submitting |-> FALSE] ++ Shut("edit"))
    \/ Fails("handleSubmit", [submitting |-> FALSE])
    \/ Fails("handleSubmit", [submitting |-> FALSE] ++ Open("quick"))

openQuickSubnet == ui.open = {"edit"} /\ Act(Open("quick"), {})
cancelQuickSubnet == "quick" \in ui.open /\ Act(Shut("quick"), {})

\* Two awaits: the subnet is created, then the subnets are fetched, and
\* whether or not that fails the subnet is selected.
handleQuickCreateSubnet ==
    \/ /\ "quick" \in ui.open /\ ~ui.quickSubnetSubmitting
       /\ Act([quickSubnetSubmitting |-> TRUE], {Req("handleQuickCreateSubnet", None, None)})
    \/ \E c \in Ok("handleQuickCreateSubnet") : Settle(c, <<>>, {Req("quickFetchSubnets", None, None)})
    \/ \E c \in Ok("quickFetchSubnets") :
          Display(c, "fetchSubnets", [quickSubnetSubmitting |-> FALSE] ++ Shut("quick"), {})
    \/ Fails("quickFetchSubnets", [quickSubnetSubmitting |-> FALSE] ++ Shut("quick"))
    \/ Fails("handleQuickCreateSubnet", [quickSubnetSubmitting |-> FALSE])

---------------------------------------------------------------------------
(* Commands on one row: Reserve if it is Free, Release if it is Reserved.  *)
RowCommand(fn) ==
    \/ \E r \in Rows : AtTable /\ Editor /\ Act(<<>>, {Req(fn, Query, r)})
    \/ ReloadRecords(fn, <<>>)
    \/ Fails(fn, <<>>)

handleDelete == RowCommand("handleDelete")
handleReserve == RowCommand("handleReserve")
handleRelease == RowCommand("handleRelease")

---------------------------------------------------------------------------
(* Commands on the rows that are ticked; the bar shows while some are.     *)
rowSelection == \E keys \in SUBSET Rows \ {ui.selectedRowKeys} : AtTable /\ Act([selectedRowKeys |-> keys], {})

BulkBar == AtTable /\ ui.selectedRowKeys # {} /\ Editor

BulkCommand(fn) ==
    \/ BulkBar /\ Act(<<>>, {Req(fn, Query, ui.selectedRowKeys)})
    \/ ReloadRecords(fn, [selectedRowKeys |-> {}])
    \/ Fails(fn, <<>>)

handleBulkReserve == BulkCommand("handleBulkReserve")
handleBulkRelease == BulkCommand("handleBulkRelease")

openBulk == BulkBar /\ Act(Open("bulk"), {})
cancelBulk == "bulk" \in ui.open /\ Act(Shut("bulk"), {})

handleBulkUpdate ==
    \/ /\ "bulk" \in ui.open /\ ~ui.bulkSubmitting
       /\ Act([bulkSubmitting |-> TRUE], {Req("handleBulkUpdate", Query, ui.selectedRowKeys)})
    \/ ReloadRecords("handleBulkUpdate",
                     [bulkSubmitting |-> FALSE, selectedRowKeys |-> {}] ++ Shut("bulk"))
    \/ Fails("handleBulkUpdate", [bulkSubmitting |-> FALSE])

---------------------------------------------------------------------------
(* ExportModal.tsx: useState takes the page's filters when the dialog is   *)
(* first rendered, with the page, and never again; changing a filter in    *)
(* the dialog changes its copy.                                            *)
openExport == AtTable /\ Act(Open("export"), {})
closeExport == "export" \in ui.open /\ Act(Shut("export"), {})

setExportFilter == "export" \in ui.open /\ \E f \in Filters \ {ui.exportFilter} : Act([exportFilter |-> f], {})

handleExport ==
    \/ /\ "export" \in ui.open /\ ~ui.exporting
       /\ Act([exporting |-> TRUE], {Req("handleExport", None, None)})
    \/ Done("handleExport", [exporting |-> FALSE] ++ Shut("export"))
    \/ Fails("handleExport", [exporting |-> FALSE])

(***************************************************************************)
(* ImportModal.tsx                                                         *)
(***************************************************************************)
openImport == AtTable /\ Editor /\ Act(Open("import"), {})
closeImport == "import" \in ui.open /\ Act([fileList |-> FALSE, result |-> FALSE] ++ Shut("import"), {})

handleDownloadTemplate ==
    \/ /\ "import" \in ui.open /\ ~ui.templateLoading
       /\ Act([templateLoading |-> TRUE], {Req("handleDownloadTemplate", None, None)})
    \/ Done("handleDownloadTemplate", [templateLoading |-> FALSE])
    \/ Fails("handleDownloadTemplate", [templateLoading |-> FALSE])

chooseFile ==
    \E f \in BOOLEAN \ {ui.fileList} : "import" \in ui.open /\ ~ui.result /\ Act([fileList |-> f], {})

\* The list is loaded again if something was imported.
handleImport ==
    \/ /\ "import" \in ui.open /\ ui.fileList /\ ~ui.result /\ ~ui.importing
       /\ Act([importing |-> TRUE], {Req("handleImport", Query, None)})
    \/ ReloadRecords("handleImport", [importing |-> FALSE, result |-> TRUE])
    \/ \E c \in Same("handleImport") : Settle(c, [importing |-> FALSE, result |-> TRUE], {})
    \/ Fails("handleImport", [importing |-> FALSE])

(***************************************************************************)
(* IPRecordHistoryDrawer.tsx: the effect on the record fetches, or empties *)
(* the list when it closes.                                                *)
(***************************************************************************)
openHistory ==
    \E r \in Rows : AtTable /\ Act([historyRecord |-> r, historyLoading |-> TRUE], {Req("fetchHistory", None, r)})

closeHistory == ui.historyRecord # None /\ ActClearing({"fetchHistory"}, [historyRecord |-> None], {})

fetchHistory ==
    \/ Show("fetchHistory", [historyLoading |-> FALSE])
    \/ Fails("fetchHistory", [historyLoading |-> FALSE])

checkRecord == \E r \in Rows : AtTable /\ Editor /\ openCheck(Query, r)

---------------------------------------------------------------------------
TableNext == fetchSubnets \/ fetchRecords \/ handleFilterChange \/ handleTableChange
RecordNext ==
    openCreateOrEdit \/ cancelEdit \/ handleSubmit \/ openQuickSubnet \/ cancelQuickSubnet
        \/ handleQuickCreateSubnet \/ handleDelete \/ handleReserve \/ handleRelease
BulkNext ==
    rowSelection \/ handleBulkReserve \/ handleBulkRelease \/ openBulk \/ cancelBulk \/ handleBulkUpdate
RecordsToolNext ==
    CASE ui.tool = "edit" -> RecordNext
      [] ui.tool = "bulk" -> BulkNext
      [] ui.tool = "export" -> openExport \/ closeExport \/ setExportFilter \/ handleExport
      [] ui.tool = "import" ->
            openImport \/ closeImport \/ handleDownloadTemplate \/ chooseFile \/ handleImport
      [] ui.tool = "history" -> openHistory \/ closeHistory \/ fetchHistory
      [] ui.tool = "check" -> checkRecord \/ CheckNext(Loading, "fetchRecords")
      [] ui.tool = "duplicates" -> (AtTable /\ openDuplicates) \/ DuplicatesNext

(* What the properties of App need to know of this page.                   *)
RecordsTouches ==
    [fn \in {"handleSubmit", "handleDelete", "handleReserve", "handleRelease", "handleBulkReserve",
             "handleBulkRelease", "handleBulkUpdate", "handleImport", "runCheck", "runScan"} |->
        {"fetchRecords", "fetchDuplicates", "fetchHistory"}]
    ++ [handleQuickCreateSubnet |-> {"fetchSubnets", "quickFetchSubnets"}]
\* A check writes the description and the power state too, and that of one record
\* the host name, which it does not count as an update (_apply_combined_check).
RecordsMaybe ==
    [handleImport |-> {}, runCheck |-> {"fetchRecords", "fetchDuplicates", "fetchHistory"},
     runScan |-> {"fetchRecords", "fetchHistory"}]

\* routers/ip_records.py, subnets.py
RecordsRequired ==
    [fn \in {"fetchSubnets", "quickFetchSubnets", "fetchRecords", "fetchHistory"} |-> "Viewer"]
    ++ [fn \in {"handleExport", "handleDownloadTemplate", "fetchDuplicates"} |-> "Operator"]
    ++ [fn \in {"handleSubmit", "handleQuickCreateSubnet", "handleDelete", "handleReserve", "handleRelease",
                "handleBulkReserve", "handleBulkRelease", "handleBulkUpdate", "handleImport",
                "runCheck", "runScan"} |-> "Administrator"]

RecordsSpinners ==
    [IPRecordsPage |->
        [loading |-> {"fetchRecords"}, submitting |-> {"handleSubmit"},
         quickSubnetSubmitting |-> {"handleQuickCreateSubnet", "quickFetchSubnets"},
         bulkSubmitting |-> {"handleBulkUpdate"}, exporting |-> {"handleExport"},
         importing |-> {"handleImport"}, templateLoading |-> {"handleDownloadTemplate"},
         historyLoading |-> {"fetchHistory"}, running |-> {"runCheck"},
         duplicatesLoading |-> {"fetchDuplicates"}]]

RecordsWanted ==
    {Req("fetchRecords", Query, None), Req("fetchSubnets", None, None)}
    \cup (IF Showing("historyRecord") THEN {Req("fetchHistory", None, ui.historyRecord)} ELSE {})
    \cup (IF Showing("checkAvailRecord") THEN {Req("runCheck", Query, ui.checkAvailRecord)} ELSE {})
    \cup (IF ui.tool = "duplicates" /\ ui.duplicatesOpen THEN {Req("fetchDuplicates", None, None)} ELSE {})

RecordsNext ==
    /\ ui.page = "IPRecordsPage"
    /\ \/ TableNext \/ RecordsToolNext
       \/ Serve(RecordsTouches, RecordsMaybe) \/ Refuse
=============================================================================
