-------------------------- MODULE NetworkScanPage --------------------------
(***************************************************************************)
(* NetworkScanPage.tsx with CreateSubnetModal: a scan whose hosts are      *)
(* reviewed and imported, or saved by the server.  Rows are hosts; those   *)
(* of ui.loose have no subnet.  estSecs is what the estimates of the CIDRs *)
(* in the text box come to.                                                *)
(***************************************************************************)
EXTENDS Browser

NoResults == [rows |-> {}, loose |-> {}, selectedKeys |-> {}, result |-> FALSE]

\* Only the select of a subnet needs the subnets.
NetworkScan ==
    Mount([page |-> "NetworkScanPage", estSecs |-> "none", asked |-> FALSE, saveMode |-> "review",
           scanning |-> FALSE, importEnv |-> FALSE, importing |-> FALSE, forIp |-> None,
           submitting |-> FALSE] ++ NoResults,
          {Req("fetchSubnets", None, None)}, {})

fetchScanSubnets == \E c \in Ok("fetchSubnets") \cup Failed("fetchSubnets") : Settle(c, <<>>, {})

AtForm == ui.forIp = None

\* "long": estimateSecs is above CONFIRM_SECS_THRESHOLD.
scanNeedsConfirm == ui.estSecs = "long"

setCidrsOrMode ==
    \E e \in {"none", "quick", "long"} \ {ui.estSecs} :
        AtForm /\ Act([estSecs |-> e, asked |-> FALSE], {})

setSaveMode ==
    \E s \in {"review", "auto"} \ {ui.saveMode} :
        AtForm /\ Act([saveMode |-> s, asked |-> FALSE] ++ NoResults, {})

\* The Popconfirm around the button.
askScan == AtForm /\ scanNeedsConfirm /\ ~ui.scanning /\ ~ui.asked /\ Act([asked |-> TRUE], {})

\* One request for each CIDR in review mode, whose answers are awaited
\* together; one for all in auto mode.
startNetworkScan ==
    /\ AtForm /\ ui.estSecs # "none" /\ ~ui.scanning
    /\ scanNeedsConfirm => ui.asked
    /\ Act([scanning |-> TRUE, asked |-> FALSE] ++ NoResults, {Req("handleScan", ui.saveMode, ui.estSecs)})

\* The hosts found; findSubnetForIP finds no subnet for those of loose.
scanned ==
    \E c \in Ok("handleScan"), hosts, loose \in SUBSET Rows :
        /\ loose \subseteq hosts
        /\ IF c.q = "review"
           THEN Settle(c, [scanning |-> FALSE, rows |-> hosts, loose |-> loose,
                           selectedKeys |-> hosts \ loose, result |-> TRUE], {})
           ELSE hosts = {} /\ Settle(c, [scanning |-> FALSE, result |-> TRUE], {})

handleScan == startNetworkScan \/ scanned \/ Fails("handleScan", [scanning |-> FALSE])

---------------------------------------------------------------------------
Reviewing == AtForm /\ ui.saveMode = "review" /\ ~ui.scanning /\ ui.result /\ ui.rows # {}
importable == ui.selectedKeys \ ui.loose

setImportEnv == Reviewing /\ ~ui.importEnv /\ Act([importEnv |-> TRUE], {})

toggleSelection ==
    \E h \in ui.rows \ ui.loose :
        /\ Reviewing
        /\ Act([selectedKeys |-> IF h \in ui.selectedKeys THEN ui.selectedKeys \ {h}
                                 ELSE ui.selectedKeys \cup {h}], {})

\* setRows and setSelectedKeys work on the state of the moment.
AssignSubnetToRow(ip) ==
    [loose |-> ui.loose \ {ip},
     selectedKeys |-> ui.selectedKeys \cup {ip}]

assignSubnetToRow == \E h \in ui.loose : Reviewing /\ Act(AssignSubnetToRow(h), {})

\* x: the host being created; q: those to come, and whether one failed.
ImportOf(hosts, errors) ==
    LET h == CHOOSE h \in hosts : TRUE IN Req("handleImport", <<hosts \ {h}, errors>>, h)

\* Broken variant: the button takes a second click.
startImportAgain ==
    /\ Reviewing /\ importable # {} /\ ui.importEnv
    /\ Act([importing |-> TRUE], {ImportOf(importable, FALSE)})

startImport ==
    /\ Reviewing /\ ~ui.importing /\ importable # {} /\ ui.importEnv
    /\ Act([importing |-> TRUE], {ImportOf(importable, FALSE)})

\* At the end the results go, whichever they are by now.
importedHost ==
    \E c \in Ok("handleImport") \cup Failed("handleImport") :
        LET errors == c.q[2] \/ c.st = "failed"
        IN  IF c.q[1] # {} THEN Settle(c, <<>>, {ImportOf(c.q[1], errors)})
            ELSE IF errors THEN Settle(c, [importing |-> FALSE], {})
            ELSE Settle(c, [importing |-> FALSE, rows |-> {}, loose |-> {}, selectedKeys |-> {},
                            result |-> ui.saveMode = "auto" /\ ui.result], {})

handleImportHosts == startImport \/ importedHost

---------------------------------------------------------------------------
(* CreateSubnetModal.tsx                                                   *)
openCreateSubnet == \E h \in ui.loose : Reviewing /\ Act([forIp |-> h], {})
closeCreateSubnet == ui.forIp # None /\ Act([forIp |-> None], {})

\* Two requests, one after the other; then onCreated, handleSubnetCreated of
\* the render in which the handler was made.
createSubnet ==
    \/ /\ ui.forIp # None /\ ~ui.submitting
       /\ Act([submitting |-> TRUE], {Req("createSubnet", None, ui.forIp)})
    \/ \E c \in Ok("createSubnet") : Settle(c, <<>>, {Req("getSubnet", None, c.x)})
    \/ \E c \in Ok("getSubnet") :
          Settle(c, [forIp |-> None, submitting |-> FALSE] ++ AssignSubnetToRow(c.x), {})
    \/ Fails("createSubnet", [submitting |-> FALSE])
    \/ Fails("getSubnet", [submitting |-> FALSE])

---------------------------------------------------------------------------
\* routers/scan.py, subnets.py, ip_records.py
NetworkScanRequired ==
    [fetchSubnets |-> "Viewer", handleScan |-> "Operator", getSubnet |-> "Viewer",
     handleImport |-> "Administrator", createSubnet |-> "Administrator"]
NetworkScanSpinners ==
    [NetworkScanPage |-> [scanning |-> {"handleScan"}, importing |-> {"handleImport"},
                          submitting |-> {"createSubnet", "getSubnet"}]]

NetworkScanNext ==
    /\ ui.page = "NetworkScanPage"
    /\ \/ fetchScanSubnets \/ setCidrsOrMode \/ setSaveMode \/ askScan \/ handleScan
       \/ setImportEnv \/ toggleSelection \/ assignSubnetToRow \/ handleImportHosts
       \/ openCreateSubnet \/ closeCreateSubnet \/ createSubnet
       \/ Serve(<<>>, <<>>) \/ Refuse
=============================================================================
