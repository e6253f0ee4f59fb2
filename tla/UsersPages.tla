----------------------------- MODULE UsersPages -----------------------------
(***************************************************************************)
(* The pages about users: UsersPage, PendingApprovalsPage with its         *)
(* ApproveModal, AuditLogPage, and RegistrationPage (which needs no        *)
(* session).                                                               *)
(***************************************************************************)
EXTENDS Browser

\* What the one dialog of the page is open for; None when it is closed.
ModalModes == {"create", "edit", "reset-password"}
ASSUME UsersAssumption == None \notin ModalModes

(***************************************************************************)
(* UsersPage.tsx: the table of users and its three dialogs.                *)
(***************************************************************************)
UsersPage ==
    Mount([page |-> "UsersPage", currentPage |-> 1, loading |-> TRUE, modalMode |-> None,
           selectedUser |-> None, submitting |-> FALSE],
          {Req("fetchUsers", 1, None)}, {"fetchUsers"})

AtUsers == ui.modalMode = None

fetchUsers ==
    \/ AtUsers /\ ~ui.loading /\ Act([loading |-> TRUE], {Req("fetchUsers", ui.currentPage, None)})
    \/ Show("fetchUsers", [loading |-> FALSE])
    \/ Fails("fetchUsers", [loading |-> FALSE])

\* The effect on currentPage fetches.
UsersPageChange ==
    \E p \in PageNos("all") \ {ui.currentPage} :
        AtUsers /\ Act([currentPage |-> p, loading |-> TRUE], {Req("fetchUsers", p, None)})

openCreate == AtUsers /\ Act([selectedUser |-> None, modalMode |-> "create"], {})

UserActions == hasRole("SuperAdmin")
openUser ==
    \E u \in Rows, m \in {"edit", "reset-password"} :
        AtUsers /\ UserActions /\ Act([selectedUser |-> u, modalMode |-> m], {})

cancelUser == ~AtUsers /\ Act([modalMode |-> None], {})

\* OK of a dialog; a button that shows its spinner takes no click.
SubmitUser(mode, fn) ==
    /\ ui.modalMode = mode /\ ~ui.submitting
    /\ mode = "create" \/ ui.selectedUser # None
    /\ Act([submitting |-> TRUE], {Req(fn, ui.currentPage, ui.selectedUser)})

\* The page captured when the handler started is the one loaded again.
ReloadUsers(fn, cells) ==
    \E c \in Ok(fn) : Settle(c, [loading |-> TRUE] ++ cells, {Req("fetchUsers", c.q, None)})

UserDialogDone == [modalMode |-> None, submitting |-> FALSE]

handleCreateUser ==
    \/ SubmitUser("create", "handleCreateUser")
    \/ ReloadUsers("handleCreateUser", UserDialogDone)
    \/ Fails("handleCreateUser", [submitting |-> FALSE])

handleEditUser ==
    \/ SubmitUser("edit", "handleEditUser")
    \/ ReloadUsers("handleEditUser", UserDialogDone)
    \/ Fails("handleEditUser", [submitting |-> FALSE])

handleResetPassword ==
    \/ SubmitUser("reset-password", "handleResetPassword")
    \/ Done("handleResetPassword", UserDialogDone)
    \/ Fails("handleResetPassword", [submitting |-> FALSE])

ConfirmUser(fn) ==
    \E u \in Rows : AtUsers /\ UserActions /\ Act(<<>>, {Req(fn, ui.currentPage, u)})

handleToggleActive ==
    \/ ConfirmUser("handleToggleActive")
    \/ ReloadUsers("handleToggleActive", <<>>)
    \/ Fails("handleToggleActive", <<>>)

handleDeleteUser ==
    \/ ConfirmUser("handleDeleteUser")
    \/ ReloadUsers("handleDeleteUser", <<>>)
    \/ Fails("handleDeleteUser", <<>>)

UsersPageNext ==
    /\ ui.page = "UsersPage"
    /\ \/ fetchUsers \/ UsersPageChange \/ openCreate \/ openUser \/ cancelUser
       \/ handleCreateUser \/ handleEditUser \/ handleResetPassword \/ handleToggleActive
       \/ handleDeleteUser

(***************************************************************************)
(* PendingApprovalsPage.tsx and ApproveModal.tsx.  ui.user is the target   *)
(* of the dialog, ui.approving its spinner.                                *)
(***************************************************************************)
PendingApprovalsPage ==
    Mount([page |-> "PendingApprovalsPage", currentPage |-> 1, loading |-> TRUE, user |-> None,
           approving |-> FALSE],
          {Req("fetchPending", 1, None)}, {"fetchPending", "listCabinets"})

fetchPending == Show("fetchPending", [loading |-> FALSE]) \/ Fails("fetchPending", [loading |-> FALSE])

PendingPageChange ==
    \E p \in PageNos("all") \ {ui.currentPage} :
        ui.user = None /\ Act([currentPage |-> p, loading |-> TRUE], {Req("fetchPending", p, None)})

ReloadPending(fn, cells) ==
    \E c \in Ok(fn) : Settle(c, [loading |-> TRUE] ++ cells, {Req("fetchPending", c.q, None)})

handleReject ==
    \/ \E u \in Rows : ui.user = None /\ Act(<<>>, {Req("handleReject", ui.currentPage, u)})
    \/ ReloadPending("handleReject", <<>>)
    \/ Fails("handleReject", <<>>)

\* The effect on open lists the cabinets.
openApprove ==
    \E u \in Rows : ui.user = None /\ Act([user |-> u], {Req("listCabinets", None, None)})

listCabinets ==
    \/ Show("listCabinets", <<>>)
    \/ \E c \in Failed("listCabinets") : Clear(c, "listCabinets", <<>>)

closeApprove == ui.user # None /\ Act([user |-> None], {})

handleApprove ==
    \/ /\ ui.user # None /\ ~ui.approving
       /\ Act([approving |-> TRUE], {Req("handleApprove", ui.currentPage, ui.user)})
    \/ ReloadPending("handleApprove", [user |-> None, approving |-> FALSE])
    \/ Fails("handleApprove", [approving |-> FALSE])

PendingApprovalsNext ==
    /\ ui.page = "PendingApprovalsPage"
    /\ \/ fetchPending \/ PendingPageChange \/ handleReject
       \/ openApprove \/ listCabinets \/ closeApprove \/ handleApprove

(***************************************************************************)
(* AuditLogPage.tsx.  Every change of a filter or of the page makes a new  *)
(* buildFilters, hence a new fetchLogs, hence a fetch.                     *)
(***************************************************************************)
AuditLogPage ==
    Mount([page |-> "AuditLogPage", currentPage |-> 1, filter |-> "all", loading |-> TRUE],
          {Req("fetchLogs", <<1, "all">>, None)}, {"fetchLogs"})

buildFilters == <<ui.currentPage, ui.filter>>

fetchLogs ==
    \/ ~ui.loading /\ Act([loading |-> TRUE], {Req("fetchLogs", buildFilters, None)})
    \/ Show("fetchLogs", [loading |-> FALSE])
    \/ Fails("fetchLogs", [loading |-> FALSE])

setLogFilter ==
    \E f \in Filters \ {ui.filter} :
        Act([filter |-> f, loading |-> TRUE], {Req("fetchLogs", <<ui.currentPage, f>>, None)})

\* The table asks for another page, and Search for the first.
LogPageChange ==
    \E p \in PageNos(ui.filter) \ {ui.currentPage} :
        Act([currentPage |-> p, loading |-> TRUE], {Req("fetchLogs", <<p, ui.filter>>, None)})

AuditLogNext == ui.page = "AuditLogPage" /\ (fetchLogs \/ setLogFilter \/ LogPageChange)

(***************************************************************************)
(* RegistrationPage.tsx                                                    *)
(***************************************************************************)
RegistrationPage ==
    Mount([page |-> "RegistrationPage", loading |-> FALSE, errorMsg |-> FALSE, submitted |-> FALSE],
          {}, {})

register ==
    \/ /\ ~ui.submitted /\ ~ui.loading
       /\ Act([loading |-> TRUE, errorMsg |-> FALSE], {Req("register", None, None)})
    \/ Done("register", [submitted |-> TRUE, loading |-> FALSE])
    \/ Fails("register", [errorMsg |-> TRUE, loading |-> FALSE])

dismissError == ui.errorMsg /\ Act([errorMsg |-> FALSE], {})

RegistrationNext == ui.page = "RegistrationPage" /\ (register \/ dismissError)

---------------------------------------------------------------------------
(* What the properties of App need to know of these pages.                 *)

\* The reads a command changes, on the server.
UsersTouches ==
    [fn \in {"handleCreateUser", "handleEditUser", "handleToggleActive", "handleDeleteUser"} |-> {"fetchUsers"}]
    ++ [fn \in {"handleReject", "handleApprove"} |-> {"fetchPending"}]

\* The role routers/users.py asks of the one who sends it.
UsersRequired ==
    [fn \in {"handleEditUser", "handleResetPassword", "handleToggleActive", "handleDeleteUser"} |-> "SuperAdmin"]
    ++ [fn \in {"fetchUsers", "handleCreateUser", "fetchPending", "handleApprove", "handleReject", "fetchLogs"}
          |-> "Administrator"]

\* Which requests a spinner waits for.
UsersSpinners ==
    [UsersPage |-> [loading |-> {"fetchUsers"},
                    submitting |-> {"handleCreateUser", "handleEditUser", "handleResetPassword"}],
     PendingApprovalsPage |-> [loading |-> {"fetchPending"}, approving |-> {"handleApprove"}],
     AuditLogPage |-> [loading |-> {"fetchLogs"}],
     RegistrationPage |-> [loading |-> {"register"}]]

\* What the screen ought to show: per read, its query and subject.
UsersWanted ==
    CASE ui.page = "UsersPage" -> {Req("fetchUsers", ui.currentPage, None)}
      [] ui.page = "PendingApprovalsPage" -> {Req("fetchPending", ui.currentPage, None)}
      [] ui.page = "AuditLogPage" -> {Req("fetchLogs", buildFilters, None)}
      [] OTHER -> {}

UsersInit == UsersPage \/ PendingApprovalsPage \/ AuditLogPage \/ RegistrationPage
UsersNext ==
    /\ ui.page \in DOMAIN UsersSpinners
    /\ \/ UsersPageNext \/ PendingApprovalsNext \/ AuditLogNext \/ RegistrationNext
       \/ Serve(UsersTouches, <<>>) \/ Refuse
=============================================================================
