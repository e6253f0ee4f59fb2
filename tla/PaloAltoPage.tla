---------------------------- MODULE PaloAltoPage ----------------------------
(***************************************************************************)
(* PaloAltoCheckPage.tsx: the check of one address, which follows what is  *)
(* typed, and of many.  Rows are addresses; checkInput is None for a text  *)
(* that is no IPv4 address; timer holds the address of the debounced       *)
(* check.  A check is a stream, which an abort ends.                       *)
(*                                                                         *)
(* A bound: in one session the user looks at the details of single checks, *)
(* or works with bulk scans and may turn to the other mode and back.       *)
(***************************************************************************)
EXTENDS Browser

\* ResultDetail, with SaveToRecordsButton and TrafficLogPanel: it is mounted
\* while a result is shown, and the answers to its requests go nowhere after.
DetailCells == [crossChecking |-> None, saving |-> FALSE, trafficOpen |-> FALSE, trafficLoading |-> FALSE]
DetailFns == {"runCrossCheck", "handleSave", "loadTraffic"}

PaloAltoTools ==
    [detail |-> DetailCells,
     bulk |-> [bulkInputValid |-> FALSE, listTooLong |-> FALSE, bulkScanning |-> FALSE, bulkFound |-> {},
               bulkSaving |-> FALSE]]

PaloAltoCheck ==
    \E t \in DOMAIN PaloAltoTools :
        Mount([page |-> "PaloAltoPage", tool |-> t, mode |-> "single", checkInput |-> None, timer |-> None,
               checkLoading |-> FALSE, checkResult |-> None, found |-> FALSE, recentLoading |-> TRUE]
              ++ PaloAltoTools[t],
              {Req("loadRecent", None, None)}, {"loadRecent", "runPaloAltoCheck", "loadTraffic"})

Unmounted == IF ui.tool = "detail" THEN DetailCells ELSE <<>>

---------------------------------------------------------------------------
(* RecentChecksPanel                                                       *)
loadRecent ==
    \/ ~ui.recentLoading /\ Act([recentLoading |-> TRUE], {Req("loadRecent", None, None)})
    \/ Show("loadRecent", [recentLoading |-> FALSE])
    \/ Fails("loadRecent", [recentLoading |-> FALSE])

---------------------------------------------------------------------------
\* The effect on the text and the mode.  A valid address leaves a check that
\* runs to the timer; another text aborts it.
Typed(mode, ip) ==
    AbortClearing({"runPaloAltoCheck", "loadTraffic"},
                  DetailFns \cup (IF ip = None THEN {"runPaloAltoCheck"} ELSE {}),
                  [mode |-> mode, checkInput |-> ip, timer |-> ip, checkResult |-> None,
                   checkLoading |-> ip # None /\ ui.checkLoading] ++ Unmounted, {})

setCheckInput ==
    \E ip \in (Rows \cup {None}) \ {ui.checkInput} : ui.mode = "single" /\ Typed("single", ip)

\* Away from the single mode only the cleanup of the effect runs.
setMode ==
    \/ /\ ui.mode = "single"
       /\ AbortClearing({"runPaloAltoCheck", "loadTraffic"}, DetailFns,
                        [mode |-> "bulk", timer |-> None] ++ Unmounted, {})
    \/ ui.mode = "bulk" /\ Typed("single", ui.checkInput)

debouncedCheck ==
    /\ ui.timer # None
    /\ FireOver({"runPaloAltoCheck"} \cup DetailFns,
                [timer |-> None, checkLoading |-> TRUE, checkResult |-> None] ++ Unmounted,
                {Req("runPaloAltoCheck", None, ui.timer)})

runPaloAltoCheck ==
    \/ \E c \in Ok("runPaloAltoCheck"), f \in IF ui.tool = "detail" THEN BOOLEAN ELSE {FALSE} :
          LET cells == [checkLoading |-> FALSE, checkResult |-> c.x, found |-> f]
          IN  IF ui.mode = "single" THEN Display(c, "runPaloAltoCheck", cells, {}) ELSE Settle(c, cells, {})
    \/ Fails("runPaloAltoCheck", [checkLoading |-> FALSE])

---------------------------------------------------------------------------
AtResult == ui.mode = "single" /\ ~ui.checkLoading /\ ui.checkResult # None

\* Two buttons share one cell: the answer to either empties it.
runCrossCheck ==
    \/ \E source \in {"zabbix", "device42"} \ {ui.crossChecking} :
          AtResult /\ ~ui.found
          /\ Act([crossChecking |-> source], {Req("runCrossCheck", None, ui.checkResult)})
    \/ Done("runCrossCheck", [crossChecking |-> None])
    \/ Fails("runCrossCheck", [crossChecking |-> None])

handleSave ==
    \/ AtResult /\ ui.found /\ ~ui.saving /\ Act([saving |-> TRUE], {Req("handleSave", None, ui.checkResult)})
    \/ Done("handleSave", [saving |-> FALSE])
    \/ Fails("handleSave", [saving |-> FALSE])

loadTraffic ==
    \/ /\ AtResult /\ ~ui.trafficLoading
       /\ Act([trafficOpen |-> TRUE, trafficLoading |-> TRUE], {Req("loadTraffic", None, ui.checkResult)})
    \/ Show("loadTraffic", [trafficLoading |-> FALSE])
    \/ Fails("loadTraffic", [trafficLoading |-> FALSE])

---------------------------------------------------------------------------
\* bulkInputValid is of the input mode chosen, listTooLong of the list.
setBulkInput ==
    \E valid, long \in BOOLEAN :
        ui.mode = "bulk" /\ Act([bulkInputValid |-> valid, listTooLong |-> long], {})

\* x: the address whose result comes next; q: those after it.
BulkScanOf(ips) == LET ip == CHOOSE ip \in ips : TRUE IN {Req("runBulkScan", ips \ {ip}, ip)}

\* The length of the list counts also when a CIDR is to be scanned.
startBulkScan ==
    /\ ui.mode = "bulk" /\ ~ui.bulkScanning /\ ui.bulkInputValid /\ ~ui.listTooLong
    /\ Act([bulkScanning |-> TRUE, bulkFound |-> {}], BulkScanOf(Rows))

runBulkScan ==
    \/ startBulkScan
    \/ \E c \in Ok("runBulkScan"), f \in BOOLEAN :
          Settle(c, [bulkScanning |-> c.q # {}, bulkFound |-> ui.bulkFound \cup (IF f THEN {c.x} ELSE {})],
                 IF c.q = {} THEN {} ELSE BulkScanOf(c.q))
    \/ Fails("runBulkScan", [bulkScanning |-> FALSE])

runBulkSave ==
    \/ /\ ui.mode = "bulk" /\ ~ui.bulkScanning /\ ui.bulkFound # {} /\ ~ui.bulkSaving
       /\ Act([bulkSaving |-> TRUE], {Req("runBulkSave", ui.bulkFound, None)})
    \/ Done("runBulkSave", [bulkSaving |-> FALSE])
    \/ Fails("runBulkSave", [bulkSaving |-> FALSE])

---------------------------------------------------------------------------
PaloAltoToolNext ==
    CASE ui.tool = "detail" -> runCrossCheck \/ handleSave \/ loadTraffic
      [] ui.tool = "bulk" -> setMode \/ setBulkInput \/ runBulkScan \/ runBulkSave

\* A check is logged, and the list of recent checks shows the log.
PaloAltoTouches == [fn \in {"runPaloAltoCheck", "runBulkScan"} |-> {"loadRecent"}]
\* routers/integrations.py, and ip_records.py for the check in another source
PaloAltoRequired ==
    [fn \in {"loadRecent", "runPaloAltoCheck", "runBulkScan", "handleSave", "loadTraffic", "runBulkSave"} |->
        "Operator"]
    ++ [runCrossCheck |-> "Administrator"]
PaloAltoSpinners ==
    [PaloAltoPage |->
        [recentLoading |-> {"loadRecent"}, checkLoading |-> {"runPaloAltoCheck"}, saving |-> {"handleSave"},
         trafficLoading |-> {"loadTraffic"}, bulkScanning |-> {"runBulkScan"}, bulkSaving |-> {"runBulkSave"}]]
PaloAltoWanted ==
    {Req("loadRecent", None, None)}
    \cup IF ui.mode = "bulk" \/ ui.timer # None \/ ui.checkInput = None THEN {}
         ELSE {Req("runPaloAltoCheck", None, ui.checkInput)}
              \cup (IF ui.tool = "detail" /\ ui.trafficOpen THEN {Req("loadTraffic", None, ui.checkInput)} ELSE {})

PaloAltoNext ==
    /\ ui.page = "PaloAltoPage"
    /\ \/ loadRecent \/ setCheckInput \/ debouncedCheck \/ runPaloAltoCheck \/ PaloAltoToolNext
       \/ Serve(PaloAltoTouches, <<>>) \/ Refuse
=============================================================================
