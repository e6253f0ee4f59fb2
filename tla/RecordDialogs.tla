--------------------------- MODULE RecordDialogs ---------------------------
(***************************************************************************)
(* The dialogs that check availability, which several pages open:          *)
(* CheckAvailabilityModal (one record), BulkCheckAvailabilityModal (many)  *)
(* and DuplicatesModal.  A check is a stream: api/ipRecords.ts hands its   *)
(* events to the callbacks of run until it ends or is aborted; the event   *)
(* with the result is the last one, and here they are one answer.          *)
(*                                                                         *)
(* cells and read are what the page's onUpdated sets and the read it sends:*)
(* it is a closure over the query of the time the check began.             *)
(***************************************************************************)
EXTENDS Browser

(***************************************************************************)
(* CheckAvailabilityModal.tsx                                              *)
(***************************************************************************)
CheckCells == [checkAvailRecord |-> None, running |-> FALSE]

\* The effect on open calls run, which starts from nothing.
openCheck(q, r) ==
    ActClearing({"runCheck"}, [checkAvailRecord |-> r, running |-> TRUE],
                {Req("runCheck", q, r)})

\* Broken variant: an aborted run returns before it clears running.
closeCheckRunning ==
    ui.checkAvailRecord # None /\ Abort({"runCheck"}, [checkAvailRecord |-> None], {})

\* When aborted, run returns, and its finally clears running.
closeCheck ==
    ui.checkAvailRecord # None /\ Abort({"runCheck"}, [checkAvailRecord |-> None, running |-> FALSE], {})

runCheck(cells, read) ==
    \/ \E c \in Ok("runCheck") : Display(c, "runCheck", [running |-> FALSE] ++ cells, {Req(read, c.q, None)})
    \/ \E c \in Same("runCheck") : Display(c, "runCheck", [running |-> FALSE], {})
    \/ Fails("runCheck", [running |-> FALSE])

CheckNext(cells, read) == closeCheck \/ runCheck(cells, read)

(***************************************************************************)
(* BulkCheckAvailabilityModal.tsx.  scanIds is None, or "few" or "many":   *)
(* more than CONFIRM_THRESHOLD.  agreed remembers a click on Start Scan    *)
(* since the dialog opened.                                                *)
(***************************************************************************)
ScanCells == [scanIds |-> None, started |-> FALSE, agreed |-> FALSE]

needsConfirm(ids) == ids = "many"

\* Two effects run when the dialog opens.  The first sets started for the
\* next render; the second still sees the value of this one and runs by it,
\* and runs again if started comes out TRUE.
openScan(q) ==
    \E ids \in {"few", "many"} :
        Act([scanIds |-> ids, started |-> ~needsConfirm(ids), agreed |-> FALSE],
            IF ui.started \/ ~needsConfirm(ids) THEN {Req("runScan", q, ids)} ELSE {})

\* run aborts the scan before it.
startScan(q) ==
    /\ ui.scanIds # None /\ ~ui.started
    /\ Abort({"runScan"}, [started |-> TRUE, agreed |-> TRUE],
             {Req("runScan", q, ui.scanIds)})

closeScan == ui.scanIds # None /\ Abort({"runScan"}, [scanIds |-> None], {})

\* Cancel on the confirmation screen closes and aborts nothing.
cancelScan == ui.scanIds # None /\ ~ui.started /\ Act([scanIds |-> None], {})

runScan(cells, read) ==
    \/ \E c \in Ok("runScan") : Settle(c, cells, {Req(read, c.q, None)})
    \/ \E c \in Same("runScan") \cup Failed("runScan") : Settle(c, <<>>, {})

ScanNext(q, cells, read) == startScan(q) \/ closeScan \/ cancelScan \/ runScan(cells, read)

(***************************************************************************)
(* DuplicatesModal.tsx.  Its Bulk Scan button is there once groups are.    *)
(***************************************************************************)
DuplicatesCells ==
    [duplicatesOpen |-> FALSE, duplicatesLoading |-> FALSE, duplicatesError |-> FALSE, data |-> FALSE]
    ++ ScanCells

FetchDuplicates == {Req("fetchDuplicates", None, None)}
DuplicatesLoading == [duplicatesLoading |-> TRUE, duplicatesError |-> FALSE]

\* The effect on open fetches.
openDuplicates == Act([duplicatesOpen |-> TRUE] ++ DuplicatesLoading, FetchDuplicates)

closeDuplicates == ui.duplicatesOpen /\ ui.scanIds = None /\ Act([duplicatesOpen |-> FALSE], {})

fetchDuplicates ==
    \/ Show("fetchDuplicates", [duplicatesLoading |-> FALSE, data |-> TRUE])
    \/ Fails("fetchDuplicates", [duplicatesLoading |-> FALSE, duplicatesError |-> TRUE])

scanDuplicates ==
    /\ ui.duplicatesOpen /\ ui.scanIds = None
    /\ ~ui.duplicatesLoading /\ ~ui.duplicatesError /\ ui.data
    /\ openScan(None)

\* A scan that updated something loads the duplicates again.
DuplicatesNext ==
    \/ closeDuplicates \/ fetchDuplicates \/ scanDuplicates
    \/ ScanNext(None, DuplicatesLoading, "fetchDuplicates")
=============================================================================
