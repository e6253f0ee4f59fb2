--------------------------- MODULE UnusedIPsPage ---------------------------
(***************************************************************************)
(* UnusedIPsPage.tsx: subnets as cards, and the unused addresses of the    *)
(* one that is open.  A query is the subnet, page and search fetchUnused   *)
(* gets; ui.timer holds the query of the debounced search, or None.        *)
(***************************************************************************)
EXTENDS RecordDialogs

\* null is no query.
ASSUME UnusedIPsAssumption == \A s \in Rows, f \in Filters : <<s, 1, f>> # None

\* The subnet may come from the URL.  The effect on the search runs at the
\* mount too.
UnusedIPs ==
    \E s \in Rows \cup {None} :
        LET open == IF s = None THEN {} ELSE {Req("fetchUnused", <<s, 1, "all">>, None)}
        IN  Mount([page |-> "UnusedIPsPage", subnetsLoading |-> TRUE, subnetsError |-> FALSE,
                   selectedSubnetId |-> s, pageNum |-> 1, detailSearch |-> "all", detailLoading |-> s # None,
                   timer |-> IF s = None THEN None ELSE <<s, 1, "all">>] ++ CheckCells,
                  {Req("fetchAllSubnets", 1, None)} \cup open, {"fetchUnused", "runCheck"})

\* It asks for page after page until it has as many subnets as there are.
fetchAllSubnets ==
    \/ \E c \in Ok("fetchAllSubnets") :
          c.q \in PageNos("all") \ {2} /\ Settle(c, <<>>, {Req("fetchAllSubnets", c.q + 1, None)})
    \/ Done("fetchAllSubnets", [subnetsLoading |-> FALSE])
    \/ Fails("fetchAllSubnets", [subnetsLoading |-> FALSE, subnetsError |-> TRUE])

UnusedQuery == <<ui.selectedSubnetId, ui.pageNum, ui.detailSearch>>
FetchUnused(q) == {Req("fetchUnused", q, None)}
DetailLoading == [detailLoading |-> TRUE]
AtDetail == ui.selectedSubnetId # None /\ ui.checkAvailRecord = None

fetchUnused ==
    \/ Show("fetchUnused", [detailLoading |-> FALSE])
    \/ \E c \in Failed("fetchUnused") : Clear(c, "fetchUnused", [detailLoading |-> FALSE])

\* The cards are there once the subnets are.  The search is empty already,
\* so that its effect does not run; the effect on subnet and page does.
openSubnet ==
    \E s \in Rows :
        /\ ui.selectedSubnetId = None /\ ~ui.subnetsLoading /\ ~ui.subnetsError
        /\ Act([selectedSubnetId |-> s, pageNum |-> 1] ++ DetailLoading, FetchUnused(<<s, 1, "all">>))

\* A search that changes takes its timer away; one that does not leaves it.
backToSummary ==
    /\ AtDetail
    /\ ActClearing({"fetchUnused"},
                   [selectedSubnetId |-> None, detailSearch |-> "all",
                    timer |-> IF ui.detailSearch = "all" THEN ui.timer ELSE None], {})

setPage ==
    \E p \in PageNos(ui.detailSearch) \ {ui.pageNum} :
        AtDetail /\ Act([pageNum |-> p] ++ DetailLoading, FetchUnused(<<ui.selectedSubnetId, p, ui.detailSearch>>))

setDetailSearch ==
    \E f \in Filters \ {ui.detailSearch} :
        AtDetail /\ Act([detailSearch |-> f, timer |-> <<ui.selectedSubnetId, 1, f>>], {})

\* The timer goes to page 1, whose effect fetches if the page was another,
\* and fetches.
debouncedSearch ==
    /\ ui.timer # None
    /\ Fire([timer |-> None, pageNum |-> 1] ++ DetailLoading,
            FetchUnused(ui.timer)
            \cup (IF ui.pageNum # 1 /\ ui.selectedSubnetId # None
                  THEN FetchUnused(<<ui.selectedSubnetId, 1, ui.detailSearch>>) ELSE {}))

checkAddress == \E ip \in Rows : AtDetail /\ hasRole("Administrator") /\ openCheck(UnusedQuery, ip)

\* There is no record to update, so that the server never reports an update
\* and the page's onUpdated is not called.
checkedAddress == Show("runCheck", [running |-> FALSE]) \/ Fails("runCheck", [running |-> FALSE])

UnusedIPsRequired ==
    [fn \in {"fetchAllSubnets", "fetchUnused"} |-> "Viewer"] ++ [runCheck |-> "Administrator"]
UnusedIPsSpinners ==
    [UnusedIPsPage |-> [subnetsLoading |-> {"fetchAllSubnets"}, detailLoading |-> {"fetchUnused"},
                        running |-> {"runCheck"}]]
UnusedIPsWanted ==
    (IF ui.selectedSubnetId = None \/ ui.timer # None THEN {} ELSE FetchUnused(UnusedQuery))
    \cup (IF ui.checkAvailRecord = None THEN {} ELSE {Req("runCheck", UnusedQuery, ui.checkAvailRecord)})

UnusedIPsNext ==
    /\ ui.page = "UnusedIPsPage"
    /\ \/ fetchAllSubnets \/ fetchUnused \/ openSubnet \/ backToSummary \/ setPage \/ setDetailSearch
       \/ debouncedSearch \/ checkAddress \/ closeCheck \/ checkedAddress
       \/ Serve(<<>>, <<>>) \/ Refuse
=============================================================================
