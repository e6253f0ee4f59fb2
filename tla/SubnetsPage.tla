---------------------------- MODULE SubnetsPage ----------------------------
(***************************************************************************)
(* SubnetsPage.tsx with SubnetDetailDrawer and ConflictScanDrawer: the     *)
(* tree of subnets under a filter, the dialog that creates and edits, the  *)
(* scan of a subnet in PaloAlto, which runs on when its dialog is closed,  *)
(* and the drawer of one subnet with its IP ranges and conflicts.          *)
(*                                                                         *)
(* A bound: in one session the user works with the tree and one of        *)
(* SubnetsTools.                                                           *)
(***************************************************************************)
EXTENDS Browser

SubnetsTools ==
    [edit |-> [modalOpen |-> FALSE, editingSubnet |-> None, submitting |-> FALSE],
     scan |-> [scanModal |-> FALSE, scanningSubnetId |-> None],
     drawer |-> [drawerSubnet |-> None, loadingRanges |-> FALSE, rangeModal |-> FALSE,
                 editingRange |-> None, submittingRange |-> FALSE,
                 conflictDrawerOpen |-> FALSE, conflictLoading |-> FALSE]]

Subnets ==
    \E t \in DOMAIN SubnetsTools :
        Mount([page |-> "SubnetsPage", tool |-> t, filter |-> "all", loading |-> TRUE] ++ SubnetsTools[t],
              {Req("fetchVrfs", None, None), Req("fetchTree", "all", None)},
              {"fetchTree", "fetchRanges", "conflictScan"})

AtTree ==
    CASE ui.tool = "edit" -> ~ui.modalOpen
      [] ui.tool = "scan" -> ~ui.scanModal
      [] ui.tool = "drawer" -> ui.drawerSubnet = None

\* Only the menus need the VRFs.
fetchVrfs == \E c \in Ok("fetchVrfs") \cup Failed("fetchVrfs") : Settle(c, <<>>, {})

FetchTree(q) == {Req("fetchTree", q, None)}

fetchTree ==
    \/ AtTree /\ ~ui.loading /\ Act(Loading, FetchTree(ui.filter))
    \/ Show("fetchTree", [loading |-> FALSE])
    \/ Fails("fetchTree", [loading |-> FALSE])

\* A new filter makes a new fetchTree, whose effect fetches.
setFilter == \E f \in Filters \ {ui.filter} : AtTree /\ Act([filter |-> f] ++ Loading, FetchTree(f))

\* Broken variant: the whole tree, whatever the filter.
ReloadWholeTree(fn, cells) == \E c \in Ok(fn) : Settle(c, cells ++ Loading, FetchTree("all"))

ReloadTree(fn, cells) == \E c \in Ok(fn) : Settle(c, cells ++ Loading, FetchTree(c.q))

---------------------------------------------------------------------------
openSubnetModal ==
    \E s \in Rows \cup {None} :
        AtTree /\ hasRole("Administrator") /\ Act([editingSubnet |-> s, modalOpen |-> TRUE], {})

cancelSubnet == ui.modalOpen /\ Act([modalOpen |-> FALSE], {})

handleSubmitSubnet ==
    \/ /\ ui.modalOpen /\ ~ui.submitting
       /\ Act([submitting |-> TRUE], {Req("handleSubmit", ui.filter, ui.editingSubnet)})
    \/ ReloadTree("handleSubmit", [modalOpen |-> FALSE, submitting |-> FALSE])
    \/ Fails("handleSubmit", [submitting |-> FALSE])

\* The button of a subnet with children is disabled.
handleDeleteSubnet ==
    \/ \E s \in Rows : AtTree /\ hasRole("Administrator") /\ Act(<<>>, {Req("handleDelete", ui.filter, s)})
    \/ ReloadTree("handleDelete", <<>>)
    \/ Fails("handleDelete", <<>>)

---------------------------------------------------------------------------
\* A scan aborts the one before it; its menu item is disabled for the subnet
\* being scanned.
startSubnetScan ==
    \E s \in Rows \ {ui.scanningSubnetId} :
        /\ AtTree /\ hasRole("Operator")
        /\ Abort({"handleScanSubnet"}, [scanningSubnetId |-> s, scanModal |-> TRUE],
                 {Req("handleScanSubnet", ui.filter, s)})

closeScanModal == ui.scanModal /\ Act([scanModal |-> FALSE], {})

\* At the end of the stream the tree is loaded, with the filter of its start.
handleScanSubnet ==
    \/ startSubnetScan
    \/ ReloadTree("handleScanSubnet", [scanningSubnetId |-> None])
    \/ Fails("handleScanSubnet", [scanningSubnetId |-> None])

---------------------------------------------------------------------------
(* SubnetDetailDrawer.tsx                                                  *)
FetchRanges(s) == {Req("fetchRanges", None, s)}
LoadingRanges == [loadingRanges |-> TRUE]
AtDrawer == ui.drawerSubnet # None /\ ~ui.rangeModal /\ ~ui.conflictDrawerOpen

\* The effect on the subnet fetches its ranges, or empties the list.
openDrawer == \E s \in Rows : AtTree /\ Act([drawerSubnet |-> s] ++ LoadingRanges, FetchRanges(s))
closeDrawer == AtDrawer /\ ActClearing({"fetchRanges"}, [drawerSubnet |-> None], {})

fetchRanges ==
    \/ Show("fetchRanges", [loadingRanges |-> FALSE])
    \/ \E c \in Failed("fetchRanges") : Clear(c, "fetchRanges", [loadingRanges |-> FALSE])

openRange ==
    \E r \in Rows \cup {None} :
        AtDrawer /\ hasRole("Operator") /\ Act([editingRange |-> r, rangeModal |-> TRUE], {})

cancelRange == ui.rangeModal /\ Act([rangeModal |-> FALSE], {})

\* The subnet is the one of the render in which the handler was made.
ReloadRanges(fn, cells) == \E c \in Ok(fn) : Settle(c, cells ++ LoadingRanges, FetchRanges(c.x))

handleSubmitRange ==
    \/ /\ ui.rangeModal /\ ~ui.submittingRange
       /\ Act([submittingRange |-> TRUE], {Req("handleSubmitRange", None, ui.drawerSubnet)})
    \/ ReloadRanges("handleSubmitRange", [rangeModal |-> FALSE, submittingRange |-> FALSE])
    \/ Fails("handleSubmitRange", [submittingRange |-> FALSE])

handleDeleteRange ==
    \/ AtDrawer /\ hasRole("Administrator") /\ Act(<<>>, {Req("handleDeleteRange", None, ui.drawerSubnet)})
    \/ ReloadRanges("handleDeleteRange", <<>>)
    \/ Fails("handleDeleteRange", <<>>)

---------------------------------------------------------------------------
(* ConflictScanDrawer.tsx: the scan starts on a click.                     *)
openConflicts == AtDrawer /\ hasRole("Operator") /\ Act([conflictDrawerOpen |-> TRUE], {})

closeConflicts ==
    ui.conflictDrawerOpen /\ ActClearing({"conflictScan"}, [conflictDrawerOpen |-> FALSE], {})

conflictScan ==
    \/ /\ ui.conflictDrawerOpen /\ ~ui.conflictLoading
       /\ ActClearing({"conflictScan"}, [conflictLoading |-> TRUE], {Req("conflictScan", None, ui.drawerSubnet)})
    \/ Show("conflictScan", [conflictLoading |-> FALSE])
    \/ Fails("conflictScan", [conflictLoading |-> FALSE])

---------------------------------------------------------------------------
TreeNext == fetchVrfs \/ fetchTree \/ setFilter
DrawerNext ==
    openDrawer \/ closeDrawer \/ fetchRanges \/ openRange \/ cancelRange \/ handleSubmitRange
        \/ handleDeleteRange \/ openConflicts \/ closeConflicts \/ conflictScan
SubnetsToolNext ==
    CASE ui.tool = "edit" -> openSubnetModal \/ cancelSubnet \/ handleSubmitSubnet \/ handleDeleteSubnet
      [] ui.tool = "scan" -> handleScanSubnet \/ closeScanModal
      [] ui.tool = "drawer" -> DrawerNext

SubnetsTouches ==
    [fn \in {"handleSubmit", "handleDelete", "handleScanSubnet"} |-> {"fetchTree"}]
    ++ [fn \in {"handleSubmitRange", "handleDeleteRange"} |-> {"fetchRanges"}]

\* routers/subnets.py, ip_ranges.py, conflicts.py, integrations.py
SubnetsRequired ==
    [fn \in {"fetchVrfs", "fetchTree", "fetchRanges"} |-> "Viewer"]
    ++ [fn \in {"handleScanSubnet", "handleSubmitRange", "conflictScan"} |-> "Operator"]
    ++ [fn \in {"handleSubmit", "handleDelete", "handleDeleteRange"} |-> "Administrator"]

SubnetsSpinners ==
    [SubnetsPage |->
        [loading |-> {"fetchTree"}, submitting |-> {"handleSubmit"}, loadingRanges |-> {"fetchRanges"},
         submittingRange |-> {"handleSubmitRange"}, conflictLoading |-> {"conflictScan"}]]

SubnetsWanted ==
    {Req("fetchTree", ui.filter, None)}
    \cup (IF ui.tool = "drawer" /\ ui.drawerSubnet # None THEN FetchRanges(ui.drawerSubnet) ELSE {})

SubnetsNext ==
    /\ ui.page = "SubnetsPage"
    /\ \/ TreeNext \/ SubnetsToolNext
       \/ Serve(SubnetsTouches, <<>>) \/ Refuse
=============================================================================
