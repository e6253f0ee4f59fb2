-------------------------- MODULE IntegrationsPage --------------------------
(***************************************************************************)
(* IntegrationsPage.tsx and its four import drawers, which are wizards of  *)
(* one shape: connect to a source, select what it discovered (Rows), read  *)
(* the result.  Nothing aborts a discovery or an import: an answer that    *)
(* comes after the drawer closed moves the closed drawer on.               *)
(*                                                                         *)
(* A bound: in one session the user opens the drawer of one source.        *)
(***************************************************************************)
EXTENDS Browser

Sources == {"vsphere", "device42", "paloalto", "zabbix"}

\* What handleClose resets.
Closed == [step |-> "connect", rows |-> {}, assigned |-> {}, selectedKeys |-> {}]

Integrations ==
    \E s \in Sources :
        Mount([page |-> "IntegrationsPage", source |-> s, open |-> FALSE, connectLoading |-> FALSE,
               importLoading |-> FALSE] ++ Closed,
              {Req("fetchSubnets", 1, None)}, {"handleConnect"})

\* Page after page, until there are as many subnets as the server counts.
fetchImportSubnets ==
    \/ \E c \in Ok("fetchSubnets") :
          c.q \in PageNos("all") \ {2} /\ Settle(c, <<>>, {Req("fetchSubnets", c.q + 1, None)})
    \/ Done("fetchSubnets", <<>>)
    \/ Fails("fetchSubnets", <<>>)

\* Broken variant: the role of the route is taken for enough.
canUseIntegrationsByRoute == hasRole("Operator")

canUseIntegrations == hasRole("SuperAdmin")

openImportDrawer == ~ui.open /\ canUseIntegrations /\ Act([open |-> TRUE], {})

handleClose ==
    ui.open /\ ActClearing({"handleConnect"}, [open |-> FALSE] ++ Closed, {Req("fetchSubnets", 1, None)})

AtStep(step) == ui.open /\ ui.step = step

handleConnect ==
    \/ /\ AtStep("connect") /\ ~ui.connectLoading
       /\ Act([connectLoading |-> TRUE], {Req("handleConnect", None, ui.source)})
    \/ \E c \in Ok("handleConnect"), found \in SUBSET Rows :
          Display(c, "handleConnect",
                  [connectLoading |-> FALSE, rows |-> found, assigned |-> {}, selectedKeys |-> {},
                   step |-> "select"], {})
    \/ Fails("handleConnect", [connectLoading |-> FALSE])

\* The vSphere drawer has no way back.
back ==
    /\ AtStep("select") /\ ui.source # "vsphere"
    /\ ActClearing({"handleConnect"}, [step |-> "connect"], {})

\* A subnet, once chosen, may be changed but not taken away.
updateRow == \E r \in ui.rows : AtStep("select") /\ Act([assigned |-> ui.assigned \cup {r}], {})

select == \E s \in SUBSET ui.rows : AtStep("select") /\ Act([selectedKeys |-> s], {})

\* Rows without a subnet are left out, and stop the import from vSphere.
toImport == ui.selectedKeys \cap ui.assigned
importReady == IF ui.source = "vsphere" THEN ui.selectedKeys \subseteq ui.assigned ELSE toImport # {}

handleImportRows ==
    \/ /\ AtStep("select") /\ ui.selectedKeys # {} /\ ~ui.importLoading /\ importReady
       /\ Act([importLoading |-> TRUE], {Req("handleImport", toImport, ui.source)})
    \/ Done("handleImport", [importLoading |-> FALSE, step |-> "results"])
    \/ Fails("handleImport", [importLoading |-> FALSE])

---------------------------------------------------------------------------
\* routers/subnets.py, integrations.py
IntegrationsRequired == [fetchSubnets |-> "Viewer", handleConnect |-> "SuperAdmin", handleImport |-> "SuperAdmin"]
IntegrationsSpinners ==
    [IntegrationsPage |-> [connectLoading |-> {"handleConnect"}, importLoading |-> {"handleImport"}]]
IntegrationsWanted == IF AtStep("select") THEN {Req("handleConnect", None, ui.source)} ELSE {}

IntegrationsNext ==
    /\ ui.page = "IntegrationsPage"
    /\ \/ fetchImportSubnets \/ openImportDrawer \/ handleClose \/ handleConnect \/ back \/ updateRow \/ select
       \/ handleImportRows \/ Serve(<<>>, <<>>) \/ Refuse
=============================================================================
