----------------------------- MODULE FilesPages -----------------------------
(***************************************************************************)
(* FilesPage.tsx with its dialogs, and the two pages a link opens for      *)
(* somebody without a session: SharePage.tsx and UploadRequestPage.tsx.    *)
(*                                                                         *)
(* Bound: one of FileTools in a session of FilesPage.                      *)
(***************************************************************************)
EXTENDS Browser

FileTools ==
    [list |-> [downloadingId |-> None],
     upload |-> [uploadOpen |-> FALSE, chosen |-> FALSE, uploading |-> FALSE],
     request |-> [requestOpen |-> FALSE, creating |-> FALSE, created |-> FALSE],
     share |-> [shareTarget |-> None, sharesLoading |-> FALSE, creating |-> FALSE]]

FetchFiles(p, s) == {Req("fetchFiles", <<p, s>>, None)}

\* pending: a file of the list waits for its scan, and the interval runs.
FilesPage ==
    \E t \in DOMAIN FileTools :
        Mount([page |-> "FilesPage", tool |-> t, pageNum |-> 1, search |-> "all", loading |-> TRUE,
                      pending |-> FALSE] ++ FileTools[t],
              FetchFiles(1, "all"), {"fetchFiles", "fetchFileShares"})

NoFileDialog ==
    CASE ui.tool = "list" -> TRUE
      [] ui.tool = "upload" -> ~ui.uploadOpen
      [] ui.tool = "request" -> ~ui.requestOpen
      [] ui.tool = "share" -> ui.shareTarget = None

---------------------------------------------------------------------------
TheseFiles == FetchFiles(ui.pageNum, ui.search)

fetchFiles ==
    \/ NoFileDialog /\ Act([loading |-> TRUE], TheseFiles)
    \/ \E some \in BOOLEAN : Show("fetchFiles", [loading |-> FALSE, pending |-> some])
    \/ Fails("fetchFiles", [loading |-> FALSE])

\* One effect follows the page and the search, which resets the page.
setSearch ==
    \E s \in Filters \ {ui.search} :
        NoFileDialog /\ Act([search |-> s, pageNum |-> 1, loading |-> TRUE], FetchFiles(1, s))

setFilesPage ==
    \E p \in PageNos(ui.search) \ {ui.pageNum} :
        NoFileDialog /\ Act([pageNum |-> p, loading |-> TRUE], FetchFiles(p, ui.search))

\* The interval, renewed with the list and with fetchFiles.  It does not wait
\* for a request under way, as a calm user does: the answer that arrives last
\* stays on the screen, also when it was computed first.
poll == ui.pending /\ Act([loading |-> TRUE], TheseFiles)

\* At the server a scan ends: what the list shows is out of date.  An answer
\* on its way would show the file pending, as if the scan ended after it.
scanEnds ==
    /\ calm /\ ui.pending /\ Ok("fetchFiles") = {}
    /\ Follow(calm, calls, [shown EXCEPT !["fetchFiles"].since = @ \cup {<<"scanEnds", "ok">>}])
    /\ UNCHANGED <<role, ui>>

handleDownload ==
    \/ \E f \in Rows \ {ui.downloadingId} : Act([downloadingId |-> f], {Req("download", None, f)})
    \/ Done("download", [downloadingId |-> None])
    \/ Fails("download", [downloadingId |-> None])

handleDeleteFile ==
    \/ \E f \in Rows : hasRole("Administrator") /\ Act(<<>>, {Req("deleteFile", <<ui.pageNum, ui.search>>, f)})
    \/ \E c \in Ok("deleteFile") : Settle(c, [loading |-> TRUE], {Req("fetchFiles", c.q, None)})
    \/ Fails("deleteFile", <<>>)

---------------------------------------------------------------------------
(* UploadModal.tsx stays mounted: an upload goes on in a closed dialog.    *)
openUpload == ~ui.uploadOpen /\ hasRole("Operator") /\ Act([uploadOpen |-> TRUE], {})
chooseUpload == \E b \in BOOLEAN \ {ui.chosen} : ui.uploadOpen /\ ~ui.uploading /\ Act([chosen |-> b], {})
closeUpload == ui.uploadOpen /\ Act([uploadOpen |-> FALSE, chosen |-> FALSE], {})

\* The list is loaded with the page and the search of when it was sent.
handleUpload ==
    \/ /\ ui.uploadOpen /\ ui.chosen /\ ~ui.uploading
       /\ Act([uploading |-> TRUE], {Req("upload", <<ui.pageNum, ui.search>>, None)})
    \/ \E c \in Ok("upload") :
          Settle(c, [uploadOpen |-> FALSE, chosen |-> FALSE, uploading |-> FALSE, loading |-> TRUE],
                 {Req("fetchFiles", c.q, None)})
    \/ Fails("upload", [uploading |-> FALSE])

---------------------------------------------------------------------------
(* RequestFileModal.tsx.  A link that arrives in the closed dialog is what *)
(* the dialog shows when it is opened again.                               *)
openRequest == ~ui.requestOpen /\ hasRole("Operator") /\ Act([requestOpen |-> TRUE], {})
closeRequest == ui.requestOpen /\ Act([requestOpen |-> FALSE, created |-> FALSE], {})

createRequest ==
    \/ ui.requestOpen /\ ~ui.created /\ ~ui.creating /\ Act([creating |-> TRUE], {Req("createRequest", None, None)})
    \/ Done("createRequest", [creating |-> FALSE, created |-> TRUE])
    \/ Fails("createRequest", [creating |-> FALSE])

---------------------------------------------------------------------------
(* ShareFileModal.tsx, mounted while a clean file is shared.               *)
FetchFileShares(f) == {Req("fetchFileShares", None, f)}

openFileShares ==
    \E f \in Rows :
        ui.shareTarget = None /\ Act([shareTarget |-> f, sharesLoading |-> TRUE], FetchFileShares(f))

closeFileShares ==
    /\ ui.shareTarget # None
    /\ AbortClearing({"fetchFileShares"}, {"fetchFileShares", "reloadFileShares", "createFileShare", "revokeFileShare"},
                     FileTools["share"], {})

fetchFileShares ==
    \/ Show("fetchFileShares", [sharesLoading |-> FALSE])
    \/ Fails("fetchFileShares", [sharesLoading |-> FALSE])

createFileShare ==
    \/ /\ ui.shareTarget # None /\ ~ui.creating
       /\ Act([creating |-> TRUE], {Req("createFileShare", None, ui.shareTarget)})
    \/ \E c \in Ok("createFileShare") : Settle(c, [sharesLoading |-> TRUE], {Req("reloadFileShares", None, c.x)})
    \/ \E c \in Ok("reloadFileShares") :
          Display(c, "fetchFileShares", [sharesLoading |-> FALSE, creating |-> FALSE], {})
    \/ Fails("createFileShare", [creating |-> FALSE])
    \/ Fails("reloadFileShares", [sharesLoading |-> FALSE, creating |-> FALSE])

revokeFileShare ==
    \/ ui.shareTarget # None /\ Act(<<>>, {Req("revokeFileShare", None, ui.shareTarget)})
    \/ Done("revokeFileShare", <<>>)
    \/ Fails("revokeFileShare", <<>>)

FilesPageNext ==
    /\ ui.page = "FilesPage"
    /\ \/ fetchFiles \/ setSearch \/ setFilesPage \/ poll \/ scanEnds
       \/ ui.tool = "list" /\ (handleDownload \/ handleDeleteFile)
       \/ ui.tool = "upload" /\ (openUpload \/ chooseUpload \/ closeUpload \/ handleUpload)
       \/ ui.tool = "request" /\ (openRequest \/ closeRequest \/ createRequest)
       \/ ui.tool = "share" /\ (openFileShares \/ closeFileShares \/ fetchFileShares \/ createFileShare
                                \/ revokeFileShare)

(***************************************************************************)
(* SharePage.tsx: a shared file or credential.                             *)
(***************************************************************************)
SharePage ==
    Mount([page |-> "SharePage", loading |-> TRUE, entry |-> None, needsPassword |-> FALSE,
                       unlocking |-> FALSE, revealed |-> FALSE, downloading |-> FALSE],
          {Req("viewLink", None, None)}, {})

Resources == {"file", "credential"}
view ==
    \/ \E r \in Resources : Done("viewLink", [entry |-> r, loading |-> FALSE])
    \/ \E protected \in BOOLEAN : Fails("viewLink", [needsPassword |-> protected, loading |-> FALSE])

\* Enter sends again while an answer is awaited.
handleUnlock ==
    \/ ~ui.loading /\ ui.needsPassword /\ ui.entry = None /\ Act([unlocking |-> TRUE], {Req("unlock", None, None)})
    \/ \E r \in Resources : Done("unlock", [entry |-> r, needsPassword |-> FALSE, unlocking |-> FALSE])
    \/ Fails("unlock", [unlocking |-> FALSE])

handleDownloadShared ==
    \/ ui.entry = "file" /\ ~ui.downloading /\ Act([downloading |-> TRUE], {Req("downloadShared", None, None)})
    \/ Done("downloadShared", [downloading |-> FALSE])
    \/ Fails("downloadShared", [downloading |-> FALSE])

\* The interval is the effect's own: it runs while the password is shown.
setRevealed == ui.entry = "credential" /\ Act([revealed |-> ~ui.revealed], {})
hideAgain == ui.revealed /\ Fire([revealed |-> FALSE], {})

SharePageNext ==
    /\ ui.page = "SharePage"
    /\ view \/ handleUnlock \/ handleDownloadShared \/ setRevealed \/ hideAgain

(***************************************************************************)
(* UploadRequestPage.tsx                                                   *)
(***************************************************************************)
UploadRequestPage ==
    Mount([page |-> "UploadRequestPage", loading |-> TRUE, valid |-> FALSE, chosen |-> FALSE,
                       uploading |-> FALSE, done |-> FALSE],
          {Req("viewUploadInfo", None, None)}, {})

viewUploadInfo ==
    \/ \E b \in BOOLEAN : Done("viewUploadInfo", [valid |-> b, loading |-> FALSE])
    \/ Fails("viewUploadInfo", [valid |-> FALSE, loading |-> FALSE])

AtUpload == ui.valid /\ ~ui.done /\ ~ui.uploading
setFileList == AtUpload /\ Act([chosen |-> ~ui.chosen], {})

handleSendFile ==
    \/ AtUpload /\ ui.chosen /\ Act([uploading |-> TRUE], {Req("sendFile", None, None)})
    \/ Done("sendFile", [uploading |-> FALSE, done |-> TRUE])
    \/ Fails("sendFile", [uploading |-> FALSE])

UploadRequestNext ==
    /\ ui.page = "UploadRequestPage"
    /\ viewUploadInfo \/ setFileList \/ handleSendFile

---------------------------------------------------------------------------
\* A download may be the one after which the file destroys itself.
FilesTouches ==
    [fn \in {"upload", "deleteFile", "download"} |-> {"fetchFiles"}]
    ++ [fn \in {"createFileShare", "revokeFileShare"} |-> {"fetchFileShares", "reloadFileShares"}]
\* routers/files.py, shares.py; the pages of a link need no session.
FilesRequired ==
    [fn \in {"fetchFiles", "download", "fetchFileShares", "reloadFileShares"} |-> "Viewer"]
    ++ [fn \in {"upload", "createRequest", "createFileShare", "revokeFileShare"} |-> "Operator"]
    ++ [deleteFile |-> "Administrator"]
FilesSpinners ==
    [FilesPage |->
        [loading |-> {"fetchFiles"}, uploading |-> {"upload"},
         sharesLoading |-> {"fetchFileShares", "reloadFileShares"},
         creating |-> {"createRequest", "createFileShare", "reloadFileShares"}],
     SharePage |-> [loading |-> {"viewLink"}, unlocking |-> {"unlock"}, downloading |-> {"downloadShared"}],
     UploadRequestPage |-> [loading |-> {"viewUploadInfo"}, uploading |-> {"sendFile"}]]
FilesWanted ==
    IF ui.page # "FilesPage" THEN {}
    ELSE TheseFiles
         \cup (IF ui.tool = "share" /\ ui.shareTarget # None THEN FetchFileShares(ui.shareTarget) ELSE {})

FilesInit == FilesPage \/ SharePage \/ UploadRequestPage
FilesNext ==
    /\ ui.page \in DOMAIN FilesSpinners
    /\ FilesPageNext \/ SharePageNext \/ UploadRequestNext \/ Serve(FilesTouches, <<>>) \/ Refuse
=============================================================================
