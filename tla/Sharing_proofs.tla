---------------------------- MODULE Sharing_proofs ----------------------------
(***************************************************************************)
(* Theorems about what users keep and share: about FileStore, for any sets *)
(* of files and requests and any number of faults; about ShareLinks, for   *)
(* any number of links and any finite set of requests; and about Vault,    *)
(* for any number of cabinets, folders, entries, users and requests under  *)
(* way.                                                                    *)
(*                                                                         *)
(* The inductive invariant Ordered of the first says at which point of an  *)
(* upload, a request or the clean-up a document, a blob and the staging    *)
(* directory may be in which state.  That of the second is                 *)
(*     Typed /\ UsesCounted /\ WithinLimit                                 *)
(* and the refinement of UseBudget follows from it.  For the vault a       *)
(* folder and its request name one cabinet at every point of the request,  *)
(* and while requests come one at a time a deletion has everything below   *)
(* the folder in its hands.                                                *)
(***************************************************************************)
EXTENDS FileStore, ShareLinks, Vault, FiniteSetTheorems, TLAPS

-----------------------------------------------------------------------------
(* The files *)

\* What the task of a file says about its document and its blob.
TaskOrder ==
    \A f \in Files :
        /\ task[f] \in {"none", "receive"} => recs[f].status = "unborn"
        /\ task[f] \in {"queued", "encrypt", "file", "infected", "scan_failed"} =>
             recs[f].status \in {"pending", "deleted"}
        /\ task[f] = "encrypt" => blob[f] = "partial"
        /\ task[f] = "file" => blob[f] = "full"
        /\ task[f] \in {"encrypt", "file"} => f \notin malware
        /\ recs[f].status = "clean" => task[f] = "done" /\ f \notin malware

\* What a request says about the document it works on.
RequestOrder ==
    \A c \in Requests :
        LET f == req[c].file IN
        req[c].pc # "idle" =>
            /\ f \in Files
            /\ recs[f].status # "unborn"
            /\ req[c].pc = "unlink" => recs[f].status = "deleted"
            /\ req[c].pc \in {"delete", "unlink"} /\ req[c].known => task[f] = "done"
            /\ req[c].pc \in {"open", "stream", "after"} =>
                 recs[f].status \in {"clean", "deleted"} /\ f \notin malware

\* What the clean-up says about the documents it found.
JobOrder ==
    /\ \A f \in job.todo \union job.known : recs[f].status # "unborn" /\ recs[f].expired
    /\ \A f \in job.known : task[f] = "done"
    /\ job.pc = "delete" =>
         /\ job.cur \in Files
         /\ job.cur \in job.known => blob[job.cur] = "none"

Ordered == TypeOK /\ TaskOrder /\ RequestOrder /\ JobOrder /\ CleanHasBlob

IInv == Ordered /\ BrokenOnlyIfGone /\ PlaintextAccounted /\ OrphansOnlyFromRaces

-----------------------------------------------------------------------------
\* What an action does not write, it does not disturb.
LEMMA Undisturbed ==
    ASSUME IInv
    PROVE  /\ UNCHANGED <<recs, task, blob, malware>> => TaskOrder'
           /\ UNCHANGED <<recs, task, req, malware>> => RequestOrder'
           /\ UNCHANGED <<recs, task, job, blob>> => JobOrder'
           /\ UNCHANGED <<recs, blob>> => CleanHasBlob'
           /\ UNCHANGED <<recs, req>> => BrokenOnlyIfGone'
           /\ UNCHANGED <<staging, task>> => PlaintextAccounted'
           /\ UNCHANGED <<recs, req, blob, blind, faults>> => OrphansOnlyFromRaces'
  BY DEF IInv, Ordered, TaskOrder, RequestOrder, JobOrder, CleanHasBlob,
         BrokenOnlyIfGone, PlaintextAccounted, OrphansOnlyFromRaces

\* Deleting a document leaves a document.
LEMMA RemoveTyped ==
    ASSUME TypeOK, NEW f \in Files, NEW known \in BOOLEAN, Remove(f, known)
    PROVE  recs' \in [Files -> Document] /\ blind' \in SUBSET Files
  <1>1. PICK s \in ScanStatus \union {"unborn", "deleted"} :
            recs' = [recs EXCEPT ![f].status = s]
    BY DEF Remove, TypeOK, Document
  <1>2. recs' \in [Files -> Document]
    BY <1>1 DEF TypeOK, Document
  <1>3. blind' \in SUBSET Files
    BY DEF Remove, TypeOK
  <1> QED BY <1>2, <1>3

-----------------------------------------------------------------------------
(* Upload and background task *)

\* A file that is staged has no document yet, so nobody has been granted it.
LEMMA StageKeeps ==
    ASSUME IInv, NEW f \in Files, Stage(f)
    PROVE  IInv'
  <1> USE FileStoreAssumption DEF IInv, Ordered, Stage
  <1>1. TypeOK'
    BY DEF TypeOK, Running
  <1>2. TaskOrder'
    BY DEF TaskOrder
  <1>3. RequestOrder'
    BY DEF TaskOrder, RequestOrder
  <1>4. JobOrder'
    BY DEF JobOrder
  <1>5. PlaintextAccounted'
    BY DEF TypeOK, PlaintextAccounted
  <1> QED BY <1>1, <1>2, <1>3, <1>4, <1>5, Undisturbed

\* A refused upload removes what it staged.
LEMMA TooLargeKeeps ==
    ASSUME IInv, NEW f \in Files, TooLarge(f)
    PROVE  IInv'
  <1> USE FileStoreAssumption DEF IInv, Ordered, TooLarge
  <1>1. TypeOK'
    BY DEF TypeOK
  <1>2. TaskOrder'
    BY DEF TaskOrder
  <1>3. RequestOrder'
    BY DEF RequestOrder
  <1>4. JobOrder'
    BY DEF JobOrder
  <1>5. PlaintextAccounted'
    BY DEF PlaintextAccounted
  <1> QED BY <1>1, <1>2, <1>3, <1>4, <1>5, Undisturbed

\* A new document is pending; nobody refers to a file without a document.
LEMMA CreateRecordKeeps ==
    ASSUME IInv, NEW f \in Files, NEW once \in BOOLEAN, CreateRecord(f, once)
    PROVE  IInv'
  <1> USE FileStoreAssumption DEF IInv, Ordered, CreateRecord
  <1>1. TypeOK'
    <2> DEFINE d == [status |-> "pending", once |-> once, expired |-> FALSE]
    <2>1. d \in Document
      BY DEF Document, ScanStatus
    <2>2. recs' = [recs EXCEPT ![f] = d]
      OBVIOUS
    <2> HIDE DEF d
    <2>3. recs' \in [Files -> Document]
      BY <2>1, <2>2 DEF TypeOK
    <2> QED BY <2>3 DEF TypeOK, Running
  <1>2. TaskOrder'
    BY DEF TypeOK, TaskOrder
  <1>3. RequestOrder'
    BY DEF TaskOrder, RequestOrder
  <1>4. JobOrder'
    BY DEF TaskOrder, JobOrder
  <1>5. CleanHasBlob'
    BY DEF CleanHasBlob
  <1>6. BrokenOnlyIfGone'
    BY DEF TaskOrder, RequestOrder, BrokenOnlyIfGone
  <1>7. PlaintextAccounted'
    BY DEF PlaintextAccounted
  <1>8. OrphansOnlyFromRaces'
    BY DEF OrphansOnlyFromRaces
  <1> QED BY <1>1, <1>2, <1>3, <1>4, <1>5, <1>6, <1>7, <1>8, Undisturbed

\* Only what the scanner calls clean goes on to be encrypted.
LEMMA ScanKeeps ==
    ASSUME IInv, NEW f \in Files, Scan(f)
    PROVE  IInv'
    <1> USE FileStoreAssumption DEF IInv, Ordered, Scan, Verdicts, Live,
          ScanStatus
  <1>1. TypeOK'
    BY DEF TypeOK, Running
  <1>2. TaskOrder'
    BY DEF TypeOK, TaskOrder
  <1>3. RequestOrder'
    BY DEF TypeOK, RequestOrder
  <1>4. JobOrder'
    BY DEF TypeOK, JobOrder, JobState
  <1>5. CleanHasBlob'
    BY DEF TypeOK, TaskOrder, CleanHasBlob
  <1>6. PlaintextAccounted'
    BY DEF TypeOK, PlaintextAccounted
  <1>7. OrphansOnlyFromRaces'
    BY DEF TypeOK, OrphansOnlyFromRaces
  <1> QED BY <1>1, <1>2, <1>3, <1>4, <1>5, <1>6, <1>7, Undisturbed

\* A file that is being encrypted has never been clean: its deleters are blind.
LEMMA EncryptedKeeps ==
    ASSUME IInv, NEW f \in Files, Encrypted(f)
    PROVE  IInv'
  <1> USE FileStoreAssumption DEF IInv, Ordered, Encrypted
  <1>1. TypeOK'
    BY DEF TypeOK, Running
  <1>2. TaskOrder'
    BY DEF TypeOK, TaskOrder
  <1>3. RequestOrder'
    BY DEF RequestOrder
  <1>4. JobOrder'
    BY DEF JobOrder
  <1>5. CleanHasBlob'
    BY DEF CleanHasBlob
  <1>6. PlaintextAccounted'
    BY DEF PlaintextAccounted
  <1>7. OrphansOnlyFromRaces'
    BY DEF TaskOrder, OrphansOnlyFromRaces
  <1> QED BY <1>1, <1>2, <1>3, <1>4, <1>5, <1>6, <1>7, Undisturbed

\* The document says clean when the blob is complete, unless it is gone.
LEMMA FileRecordKeeps ==
    ASSUME IInv, NEW f \in Files, FileRecord(f)
    PROVE  IInv'
    <1> USE FileStoreAssumption DEF IInv, Ordered, FileRecord, RecordVerdict,
          Live, ScanStatus
  <1>1. TypeOK'
    BY DEF TypeOK, Document
  <1>2. TaskOrder'
    BY DEF TypeOK, TaskOrder
  <1>3. RequestOrder'
    BY DEF RequestOrder
  <1>4. JobOrder'
    BY DEF JobOrder
  <1>5. CleanHasBlob'
    BY DEF TaskOrder, CleanHasBlob
  <1>6. BrokenOnlyIfGone'
    BY DEF BrokenOnlyIfGone
  <1>7. PlaintextAccounted'
    BY DEF PlaintextAccounted
  <1>8. OrphansOnlyFromRaces'
    BY DEF OrphansOnlyFromRaces
  <1> QED BY <1>1, <1>2, <1>3, <1>4, <1>5, <1>6, <1>7, <1>8, Undisturbed

\* A verdict other than clean leaves the document without a path.
LEMMA FlagKeeps ==
    ASSUME IInv, NEW f \in Files, Flag(f)
    PROVE  IInv'
    <1> USE FileStoreAssumption DEF IInv, Ordered, Flag, RecordVerdict, Live,
          ScanStatus
  <1>0. /\ task[f] \in {"infected", "scan_failed"}
        /\ UNCHANGED <<staging, blob, malware, req, job, faults, blind>>
        /\ \E s \in {"infected", "scan_failed"}, end \in {"done", "blocked"} :
             /\ recs' = [recs EXCEPT ![f].status = IF Live(f) THEN s ELSE @]
             /\ task' = [task EXCEPT ![f] = end]
             /\ end = "done" => task[f] = "infected"
    OBVIOUS
  <1> HIDE DEF Flag, RecordVerdict
  <1>1. TypeOK'
    BY <1>0 DEF TypeOK, Document
  <1>2. TaskOrder'
    BY <1>0 DEF TypeOK, TaskOrder
  <1>3. RequestOrder'
    BY <1>0 DEF TaskOrder, RequestOrder
  <1>4. JobOrder'
    BY <1>0 DEF JobOrder
  <1>5. CleanHasBlob'
    BY <1>0 DEF CleanHasBlob
  <1>6. BrokenOnlyIfGone'
    BY <1>0 DEF BrokenOnlyIfGone
  <1>7. PlaintextAccounted'
    BY <1>0 DEF PlaintextAccounted
  <1>8. OrphansOnlyFromRaces'
    BY <1>0 DEF OrphansOnlyFromRaces
  <1> QED BY <1>1, <1>2, <1>3, <1>4, <1>5, <1>6, <1>7, <1>8, Undisturbed

\* Expiry only weakens what a document promises.
LEMMA ExpireKeeps ==
    ASSUME IInv, NEW f \in Files, Expire(f)
    PROVE  IInv'
  <1> USE FileStoreAssumption DEF IInv, Ordered, Expire, Live, ScanStatus
  <1>1. TypeOK'
    BY DEF TypeOK, Document
  <1>2. TaskOrder'
    BY DEF TaskOrder
  <1>3. RequestOrder'
    BY DEF RequestOrder
  <1>4. JobOrder'
    BY DEF JobOrder
  <1>5. CleanHasBlob'
    BY DEF CleanHasBlob
  <1>6. BrokenOnlyIfGone'
    BY DEF BrokenOnlyIfGone
  <1>7. OrphansOnlyFromRaces'
    BY DEF OrphansOnlyFromRaces
  <1> QED BY <1>1, <1>2, <1>3, <1>4, <1>5, <1>6, <1>7, Undisturbed

\* A task that ends early has not made its document clean.
LEMMA TaskFailsKeeps ==
    ASSUME IInv, NEW f \in Files, TaskFails(f)
    PROVE  IInv'
  <1> USE FileStoreAssumption DEF IInv, Ordered, TaskFails, Fault, stores
  <1>1. TypeOK'
    BY DEF TypeOK
  <1>2. TaskOrder'
    BY DEF TaskOrder, Running
  <1>3. RequestOrder'
    BY DEF RequestOrder, Running
  <1>4. JobOrder'
    BY DEF JobOrder, Running
  <1>5. PlaintextAccounted'
    BY DEF PlaintextAccounted
  <1>6. OrphansOnlyFromRaces'
    BY DEF TypeOK, OrphansOnlyFromRaces
  <1> QED BY <1>1, <1>2, <1>3, <1>4, <1>5, <1>6, Undisturbed

-----------------------------------------------------------------------------
(* Requests *)

\* A download is granted on a clean document.
LEMMA StartDownloadKeeps ==
    ASSUME IInv, NEW f \in Files, NEW c \in Requests, NEW kind \in {"owner", "link"}, StartDownload(c, f, kind)
    PROVE  IInv'
  <1> USE FileStoreAssumption DEF IInv, Ordered, StartDownload, Begin, stores
  <1>1. TypeOK'
    BY DEF TypeOK, RequestState
  <1>2. RequestOrder'
    BY DEF TaskOrder, RequestOrder
  <1>3. BrokenOnlyIfGone'
    BY DEF BrokenOnlyIfGone
  <1>4. OrphansOnlyFromRaces'
    BY DEF OrphansOnlyFromRaces
  <1> QED BY <1>1, <1>2, <1>3, <1>4, Undisturbed

\* A deleter knows a path only if the task has ended.
LEMMA StartDeleteKeeps ==
    ASSUME IInv, NEW f \in Files, NEW c \in Requests, StartDelete(c, f)
    PROVE  IInv'
    <1> USE FileStoreAssumption DEF IInv, Ordered, StartDelete, Begin, stores,
          Live, PathKnown, ScanStatus
  <1>0. Live(f) /\ \E k \in BOOLEAN : (k => task[f] = "done") /\ Begin(c, f, "delete", "admin", k)
    BY DEF TaskOrder
  <1> HIDE DEF StartDelete, PathKnown
  <1>1. TypeOK'
    BY <1>0 DEF TypeOK, RequestState
  <1>2. RequestOrder'
    BY <1>0 DEF RequestOrder
  <1>3. BrokenOnlyIfGone'
    BY <1>0 DEF BrokenOnlyIfGone
  <1>4. OrphansOnlyFromRaces'
    BY <1>0 DEF OrphansOnlyFromRaces
  <1>5. TaskOrder' /\ JobOrder' /\ CleanHasBlob' /\ PlaintextAccounted'
    BY <1>0, Undisturbed
  <1> QED BY <1>1, <1>2, <1>3, <1>4, <1>5

\* A blob that is missing belongs to a document that is gone or has expired.
LEMMA OpenBlobKeeps ==
    ASSUME IInv, NEW c \in Requests, OpenBlob(c)
    PROVE  IInv'
  <1> USE FileStoreAssumption DEF IInv, Ordered, OpenBlob, Goto, stores
  <1>. UNCHANGED <<recs, staging, blob, malware, blind, task, job, faults>>
    OBVIOUS
  <1>0. /\ req[c].pc = "open"
        /\ \E pc \in {"broken", "stream"} :
             /\ pc = "broken" => blob[req[c].file] = "none"
             /\ req' = [req EXCEPT ![c].pc = pc]
    OBVIOUS
  <1> HIDE DEF OpenBlob, Goto, stores
  <1>1. TypeOK'
    BY <1>0 DEF TypeOK, RequestState
  <1>2. RequestOrder'
    BY <1>0 DEF RequestOrder
  <1>3. BrokenOnlyIfGone'
    BY <1>0 DEF RequestOrder, CleanHasBlob, BrokenOnlyIfGone
  <1>4. OrphansOnlyFromRaces'
    BY <1>0 DEF OrphansOnlyFromRaces
  <1> QED BY <1>1, <1>2, <1>3, <1>4, Undisturbed

\* The end of a stream leaves the document as it is.
LEMMA StreamEndsKeeps ==
    ASSUME IInv, NEW c \in Requests, EndStream(c)
    PROVE  IInv'
  <1> USE FileStoreAssumption DEF IInv, Ordered, EndStream, Goto, stores
  <1>1. TypeOK'
    BY DEF TypeOK, RequestState
  <1>2. RequestOrder'
    BY DEF RequestOrder
  <1>3. BrokenOnlyIfGone'
    BY DEF BrokenOnlyIfGone
  <1>4. OrphansOnlyFromRaces'
    BY DEF OrphansOnlyFromRaces
  <1> QED BY <1>1, <1>2, <1>3, <1>4, Undisturbed

\* So does a client that leaves.
LEMMA DisconnectKeeps ==
    ASSUME IInv, NEW c \in Requests, Disconnect(c)
    PROVE  IInv'
  <1> USE FileStoreAssumption DEF IInv, Ordered, Disconnect, Goto, stores
  <1>1. TypeOK'
    BY DEF TypeOK, RequestState
  <1>2. RequestOrder'
    BY DEF RequestOrder
  <1>3. BrokenOnlyIfGone'
    BY DEF BrokenOnlyIfGone
  <1>4. OrphansOnlyFromRaces'
    BY DEF OrphansOnlyFromRaces
  <1> QED BY <1>1, <1>2, <1>3, <1>4, Undisturbed

\* The background task of a download knows a path only if the task has ended.
LEMMA AfterKeeps ==
    ASSUME IInv, NEW c \in Requests, After(c)
    PROVE  IInv'
    <1> USE FileStoreAssumption DEF IInv, Ordered, After, Goto, stores,
          PathKnown, Live, ScanStatus
  <1>. UNCHANGED <<recs, staging, blob, malware, blind, task, job, faults>>
    OBVIOUS
  <1>0. /\ req[c].pc = "after"
        /\ \E pc \in {"delete", "done"}, k \in BOOLEAN :
             /\ pc = "delete" /\ k => task[req[c].file] = "done"
             /\ req' = [req EXCEPT ![c].pc = pc, ![c].known = k]
    BY DEF TypeOK, TaskOrder, RequestOrder, RequestState
  <1> HIDE DEF After, Goto, stores, PathKnown
  <1>1. TypeOK'
    <2>1. PICK pc \in {"delete", "done"}, k \in BOOLEAN :
              req' = [req EXCEPT ![c].pc = pc, ![c].known = k]
      BY <1>0
    <2>2. req' = [req EXCEPT ![c] = [req[c] EXCEPT !.pc = pc, !.known = k]]
      BY <2>1
    <2>3. [req[c] EXCEPT !.pc = pc, !.known = k] \in RequestState
      BY DEF TypeOK, RequestState
    <2>4. req' \in [Requests -> RequestState]
      BY <2>2, <2>3 DEF TypeOK
    <2> QED BY <2>4 DEF TypeOK
  <1>2. RequestOrder'
    BY <1>0 DEF TypeOK, RequestOrder
  <1>3. BrokenOnlyIfGone'
    BY <1>0 DEF TypeOK, BrokenOnlyIfGone
  <1>4. OrphansOnlyFromRaces'
    BY <1>0 DEF TypeOK, OrphansOnlyFromRaces
  <1> QED BY <1>1, <1>2, <1>3, <1>4, Undisturbed

\* The deleter that knows the path is the one that will remove the blob.
LEMMA DeleteRecordKeeps ==
    ASSUME IInv, NEW c \in Requests, DeleteRecord(c)
    PROVE  IInv'
    <1> USE FileStoreAssumption DEF IInv, Ordered, DeleteRecord, Remove, Goto,
          Live, ScanStatus
  <1>1. TypeOK'
    <2>1. req[c].file \in Files /\ req[c].known \in BOOLEAN
      BY DEF TypeOK, RequestState, RequestOrder
    <2>2. recs' \in [Files -> Document] /\ blind' \in SUBSET Files
      BY <2>1, RemoveTyped
    <2>3. req' \in [Requests -> RequestState]
      BY DEF TypeOK, RequestState
    <2> QED BY <2>2, <2>3 DEF TypeOK
  <1>2. TaskOrder'
    BY DEF TaskOrder
  <1>3. RequestOrder'
    BY DEF TypeOK, RequestOrder, Document
  <1>4. JobOrder'
    BY DEF JobOrder
  <1>5. CleanHasBlob'
    BY DEF CleanHasBlob
  <1>6. BrokenOnlyIfGone'
    BY DEF BrokenOnlyIfGone
  <1>7. OrphansOnlyFromRaces'
    BY DEF TypeOK, OrphansOnlyFromRaces
  <1> QED BY <1>1, <1>2, <1>3, <1>4, <1>5, <1>6, <1>7, Undisturbed

\* The blob goes after its document.
LEMMA UnlinkKeeps ==
    ASSUME IInv, NEW c \in Requests, Unlink(c)
    PROVE  IInv'
  <1> USE FileStoreAssumption DEF IInv, Ordered, Unlink, Goto
  <1>1. TypeOK'
    <2>1. req' \in [Requests -> RequestState]
      BY DEF TypeOK, RequestState
    <2>2. blob' \in [Files -> {"none", "partial", "full"}]
      BY DEF TypeOK
    <2> QED BY <2>1, <2>2 DEF TypeOK
  <1>2. TaskOrder'
    BY DEF TaskOrder, RequestOrder
  <1>3. RequestOrder'
    BY DEF RequestOrder
  <1>4. JobOrder'
    BY DEF JobOrder
  <1>5. CleanHasBlob'
    BY DEF RequestOrder, CleanHasBlob
  <1>6. BrokenOnlyIfGone'
    BY DEF BrokenOnlyIfGone
  <1>7. OrphansOnlyFromRaces'
    BY DEF TypeOK, OrphansOnlyFromRaces
  <1> QED BY <1>1, <1>2, <1>3, <1>4, <1>5, <1>6, <1>7, Undisturbed

\* A request that fails is a fault.
LEMMA RequestFailsKeeps ==
    ASSUME IInv, NEW c \in Requests, RequestFails(c)
    PROVE  IInv'
    <1> USE FileStoreAssumption DEF IInv, Ordered, RequestFails, Goto, Fault,
          stores
  <1>1. TypeOK'
    BY DEF TypeOK, RequestState
  <1>2. RequestOrder'
    BY DEF RequestOrder
  <1>3. BrokenOnlyIfGone'
    BY DEF BrokenOnlyIfGone
  <1>4. OrphansOnlyFromRaces'
    BY DEF TypeOK, OrphansOnlyFromRaces
  <1> QED BY <1>1, <1>2, <1>3, <1>4, Undisturbed

-----------------------------------------------------------------------------
(* The clean-up, and the end of the process *)

\* The clean-up finds documents that have expired.
LEMMA FindExpiredKeeps ==
    ASSUME IInv, FindExpired
    PROVE  IInv'
    <1> USE FileStoreAssumption DEF IInv, Ordered, FindExpired, Live, PathKnown,
          ScanStatus, stores
  <1>1. TypeOK'
    BY DEF TypeOK, JobState
  <1>2. JobOrder'
    BY DEF TaskOrder, JobOrder
  <1> QED BY <1>1, <1>2, Undisturbed

\* The clean-up removes blobs of expired documents only.
LEMMA CleanBlobKeeps ==
    ASSUME IInv, NEW f \in Files, CleanBlob(f)
    PROVE  IInv'
  <1> USE FileStoreAssumption DEF IInv, Ordered, CleanBlob
  <1>1. TypeOK'
    BY DEF TypeOK, JobState
  <1>2. TaskOrder'
    BY DEF TaskOrder, JobOrder
  <1>3. JobOrder'
    BY DEF TypeOK, JobOrder
  <1>4. CleanHasBlob'
    BY DEF JobOrder, CleanHasBlob
  <1>5. OrphansOnlyFromRaces'
    BY DEF OrphansOnlyFromRaces
  <1> QED BY <1>1, <1>2, <1>3, <1>4, <1>5, Undisturbed

\* The document follows a blob that is already gone.
LEMMA CleanRecordKeeps ==
    ASSUME IInv, CleanRecord
    PROVE  IInv'
    <1> USE FileStoreAssumption DEF IInv, Ordered, CleanRecord, Remove, Live,
          ScanStatus
  <1>1. TypeOK'
    <2>1. job.cur \in Files
      BY DEF JobOrder
    <2>2. recs' \in [Files -> Document] /\ blind' \in SUBSET Files
      BY <2>1, RemoveTyped
    <2>3. job' \in JobState
      BY DEF TypeOK, JobState
    <2> QED BY <2>2, <2>3 DEF TypeOK
  <1>2. TaskOrder'
    BY DEF TaskOrder
  <1>3. RequestOrder'
    BY DEF RequestOrder
  <1>4. JobOrder'
    BY DEF JobOrder
  <1>5. CleanHasBlob'
    BY DEF CleanHasBlob
  <1>6. BrokenOnlyIfGone'
    BY DEF BrokenOnlyIfGone
  <1>7. OrphansOnlyFromRaces'
    BY DEF JobOrder, OrphansOnlyFromRaces
  <1> QED BY <1>1, <1>2, <1>3, <1>4, <1>5, <1>6, <1>7, Undisturbed

\* The end of a clean-up forgets its list.
LEMMA EndCleanupKeeps ==
    ASSUME IInv, EndCleanup
    PROVE  IInv'
  <1> USE FileStoreAssumption DEF IInv, Ordered, EndCleanup, IdleJob, stores
  <1>1. TypeOK'
    BY DEF TypeOK, JobState
  <1>2. JobOrder'
    BY DEF JobOrder
  <1> QED BY <1>1, <1>2, Undisturbed

\* So does one that fails.
LEMMA CleanupFailsKeeps ==
    ASSUME IInv, CleanupFails
    PROVE  IInv'
    <1> USE FileStoreAssumption DEF IInv, Ordered, CleanupFails, IdleJob, Fault,
          stores
  <1>1. TypeOK'
    BY DEF TypeOK, JobState
  <1>2. JobOrder'
    BY DEF JobOrder
  <1>3. OrphansOnlyFromRaces'
    BY DEF TypeOK, OrphansOnlyFromRaces
  <1> QED BY <1>1, <1>2, <1>3, Undisturbed

\* The end of the process ends every actor and changes no store.
LEMMA CrashKeeps ==
    ASSUME IInv, Crash
    PROVE  IInv'
  <1> USE FileStoreAssumption DEF IInv, Ordered, Crash, IdleJob, Fault, stores
  <1>1. TypeOK'
    <2>1. task' \in [Files -> Running \union {"none", "done", "blocked", "lost"}]
      BY DEF TypeOK
    <2>2. req' \in [Requests -> RequestState]
      BY DEF TypeOK, RequestState
    <2>3. job' \in JobState
      BY DEF JobState
    <2> QED BY <2>1, <2>2, <2>3 DEF TypeOK
  <1>2. TaskOrder'
    BY DEF TaskOrder, Running
  <1>3. RequestOrder'
    BY DEF RequestOrder
  <1>4. JobOrder'
    BY DEF JobOrder
  <1>5. BrokenOnlyIfGone'
    BY DEF BrokenOnlyIfGone
  <1>6. PlaintextAccounted'
    BY DEF TypeOK, PlaintextAccounted
  <1>7. OrphansOnlyFromRaces'
    BY DEF TypeOK, OrphansOnlyFromRaces
  <1> QED BY <1>1, <1>2, <1>3, <1>4, <1>5, <1>6, <1>7, Undisturbed

-----------------------------------------------------------------------------
(* The theorems *)

\* Nothing has been uploaded, asked for or found.
LEMMA InitHolds == Init => IInv
  BY FileStoreAssumption
     DEF Init, IInv, Ordered, NoDocument, IdleRequest, IdleJob, TypeOK,
         Document, RequestState, JobState, TaskOrder, RequestOrder, JobOrder,
         CleanHasBlob, BrokenOnlyIfGone, PlaintextAccounted,
         OrphansOnlyFromRaces

\* Every step of every actor keeps the invariant.
LEMMA StepKeeps == IInv /\ [Next]_vars => IInv'
  <1> SUFFICES ASSUME IInv, [Next]_vars PROVE IInv'
    OBVIOUS
  <1>1. ASSUME NEW f \in Files, Stage(f) \/ UploadStep(f) PROVE IInv'
    BY <1>1, StageKeeps, TooLargeKeeps, CreateRecordKeeps DEF UploadStep
  <1>2. ASSUME NEW f \in Files, TaskStep(f) PROVE IInv'
    BY <1>2, ScanKeeps, EncryptedKeeps, FileRecordKeeps, FlagKeeps DEF TaskStep
  <1>3. ASSUME NEW f \in Files, Expire(f) \/ TaskFails(f) PROVE IInv'
    BY <1>3, ExpireKeeps, TaskFailsKeeps
  <1>4. ASSUME NEW c \in Requests, StartRequest(c) PROVE IInv'
    BY <1>4, StartDeleteKeeps, StartDownloadKeeps DEF StartRequest
  <1>5. ASSUME NEW c \in Requests, RequestStep(c) PROVE IInv'
    BY <1>5, OpenBlobKeeps, StreamEndsKeeps, AfterKeeps, DeleteRecordKeeps,
       UnlinkKeeps
       DEF RequestStep
  <1>6. ASSUME NEW c \in Requests, Disconnect(c) \/ RequestFails(c) PROVE IInv'
    BY <1>6, DisconnectKeeps, RequestFailsKeeps
  <1>7. CASE CleanupStep
    BY <1>7, FindExpiredKeeps, CleanBlobKeeps, CleanRecordKeeps, EndCleanupKeeps
       DEF CleanupStep
  <1>8. CASE CleanupFails \/ Crash
    BY <1>8, CleanupFailsKeeps, CrashKeeps
  <1>9. CASE UNCHANGED vars
    <2>1. TypeOK'
      BY <1>9 DEF vars, IInv, Ordered, TypeOK
    <2> QED BY <1>9, <2>1, Undisturbed DEF vars, IInv, Ordered
  <1> QED BY <1>1, <1>2, <1>3, <1>4, <1>5, <1>6, <1>7, <1>8, <1>9 DEF Next

\* The invariant holds in every reachable state.
THEOREM Inductive == Spec => []IInv
  <1>1. Init => IInv
    BY InitHolds
  <1>2. IInv /\ [Next]_vars => IInv'
    BY StepKeeps
  <1> QED BY <1>1, <1>2, PTL DEF Spec

\* Documents, disk, tasks, requests and the clean-up keep their types.
THEOREM TypeCorrect == Spec => []TypeOK
  BY Inductive, PTL DEF IInv, Ordered

\* A document that says clean and has not expired has its complete encrypted
\* file, for any number of requests, faults and nights.
THEOREM CleanDocumentHasBlob == Spec => []CleanHasBlob
  BY Inductive, PTL DEF IInv, Ordered

\* A granted download finds no file only if the file was deleted or had expired.
THEOREM BreaksOnlyIfGone == Spec => []BrokenOnlyIfGone
  BY Inductive, PTL DEF IInv

\* Plaintext that is still staged belongs to an upload that goes on, failed its
\* scan, or was stopped by a fault.
THEOREM PlaintextIsAccounted == Spec => []PlaintextAccounted
  BY Inductive, PTL DEF IInv

\* Without faults only a deleter that read the document before it had a path
\* leaves a blob behind.
THEOREM OrphansComeFromRaces == Spec => []OrphansOnlyFromRaces
  BY Inductive, PTL DEF IInv

\* Nothing the scanner recognises is sent to anybody.
THEOREM MalwareStays == Spec => []NoMalwareServed
  <1>1. IInv => NoMalwareServed
    BY DEF IInv, Ordered, RequestOrder, NoMalwareServed
  <1> QED BY <1>1, Inductive, PTL

-----------------------------------------------------------------------------
(* The links *)

InFlight == {"checked", "granted", "stored", "served", "spent"}
Taken    == {"granted", "stored", "served", "spent"}

\* A request that has checked a link has a link of the kind it asks for.
BusyHasLink ==
    \A a \in Asks : asks[a].pc \in InFlight =>
        /\ asks[a].link \in Links
        /\ links[asks[a].link].state # "unborn"
        /\ Resolves(asks[a].what, links[asks[a].link].kind)

\* A guest link has been created with the limit one; what is not created is
\* not used.
LinkShape ==
    \A l \in Links :
        /\ links[l].state = "unborn" =>
             links[l].used = 0 /\ links[l].limit = 0 /\ ~links[l].revoked
        /\ links[l].kind = "upload" => links[l].limit = 1 /\ links[l].state # "unborn"

\* A file has landed for an upload request that took a use.
LandedTook ==
    \A a \in landed : asks[a].what = "upload" /\ asks[a].pc \in {"stored", "served", "spent"}

Typed == LinksTypeOK /\ BusyHasLink /\ LinkShape /\ LandedTook

-----------------------------------------------------------------------------
(* Types and shapes *)

LEMMA TypedInit == LinksInit => Typed
  BY ShareLinksAssumption
  DEF LinksInit, Typed, LinksTypeOK, BusyHasLink, LinkShape, LandedTook, UnbornLink,
      IdleAsk, LinkDocument, AskState, Kinds, InFlight

\* A new link is well formed, and no request is in flight on it.
LEMMA NewLinkTyped ==
    ASSUME Typed, NEW l \in Links, NEW kind \in Kinds, NEW n \in Nat,
           kind = "upload" => n = 1, NewLink(l, kind, n)
    PROVE  links' \in [Links -> LinkDocument] /\ BusyHasLink' /\ LinkShape' /\ LandedTook'
  <1> DEFINE d == [state |-> "live", kind |-> kind, limit |-> n, used |-> 0,
                   revoked |-> FALSE, expired |-> FALSE]
  <1>1. d.state = "live" /\ d.kind = kind /\ d.limit = n /\ d.used = 0
    OBVIOUS
  <1>2. links' = [links EXCEPT ![l] = d] /\ UNCHANGED <<asks, landed>>
    BY DEF NewLink
  <1>3. d \in LinkDocument
    BY DEF LinkDocument
  <1> HIDE DEF d
  <1>4. links' \in [Links -> LinkDocument]
    BY <1>2, <1>3 DEF Typed, LinksTypeOK
  <1>5. BusyHasLink'
    <2> SUFFICES ASSUME NEW a \in Asks, asks[a].pc \in InFlight
                 PROVE  /\ asks[a].link \in Links
                        /\ links'[asks[a].link].state # "unborn"
                        /\ Resolves(asks[a].what, links'[asks[a].link].kind)
      BY <1>2 DEF BusyHasLink
    <2>1. asks[a].link \in Links /\ links[asks[a].link].state # "unborn"
      BY DEF Typed, BusyHasLink
    <2>2. asks[a].link # l
      BY <2>1 DEF NewLink
    <2> QED BY <1>2, <2>1, <2>2 DEF Typed, LinksTypeOK, BusyHasLink
  <1>6. LinkShape'
    BY <1>1, <1>2 DEF Typed, LinksTypeOK, LinkShape
  <1> QED BY <1>2, <1>4, <1>5, <1>6 DEF Typed, LandedTook

\* A change of a created link that keeps its kind and its limit.
LEMMA LinkStepTyped ==
    ASSUME Typed, NEW l \in Links, NEW d \in LinkDocument,
           links[l].state # "unborn", d.state # "unborn",
           d.kind = links[l].kind, d.limit = links[l].limit,
           links' = [links EXCEPT ![l] = d]
    PROVE  /\ links' \in [Links -> LinkDocument]
           /\ LinkShape'
           /\ (UNCHANGED asks => BusyHasLink')
  <1>1. links' \in [Links -> LinkDocument]
    BY DEF Typed, LinksTypeOK
  <1>2. LinkShape'
    BY DEF Typed, LinksTypeOK, LinkShape
  <1>3. ASSUME UNCHANGED asks PROVE BusyHasLink'
    BY <1>3 DEF Typed, LinksTypeOK, BusyHasLink
  <1> QED BY <1>1, <1>2, <1>3

\* A request moves on and stays on its link; landed only gets requests that
\* have taken a use.
LEMMA AskStepTyped ==
    ASSUME Typed, NEW a \in Asks, asks[a].pc \in InFlight,
           NEW pc \in InFlight \union {"refused"}, AskGoesTo(a, pc),
           a \in landed => pc \in {"stored", "served", "spent"},
           UNCHANGED landed, links' \in [Links -> LinkDocument],
           \A l \in Links : /\ links'[l].kind = links[l].kind
                            /\ links[l].state # "unborn" => links'[l].state # "unborn"
    PROVE  asks' \in [Asks -> AskState] /\ BusyHasLink' /\ LandedTook'
  <1>1. asks' \in [Asks -> AskState]
    BY DEF AskGoesTo, Typed, LinksTypeOK, AskState, InFlight
  <1>2. \A b \in Asks : /\ asks'[b].link = asks[b].link
                        /\ asks'[b].what = asks[b].what
                        /\ asks'[b].pc = IF b = a THEN pc ELSE asks[b].pc
    BY DEF AskGoesTo, Typed, LinksTypeOK, AskState
  <1>3. BusyHasLink'
    BY <1>2 DEF Typed, BusyHasLink
  <1>4. LandedTook'
    BY <1>2 DEF Typed, LinksTypeOK, LandedTook
  <1> QED BY <1>1, <1>3, <1>4

\* Owners, time and housekeeping.
LEMMA OwnerTyped ==
    ASSUME Typed, NEW l \in Links, OwnerStep(l)
    PROVE  Typed'
  <1> USE ShareLinksAssumption
  <1>1. ASSUME NEW kind \in {"secret", "file"}, NEW n \in Limits,
               NEW t \in {"unready", "ready"}, CreateDownloadLink(l, kind, n, t)
        PROVE  Typed'
    <2>1. kind \in Kinds /\ n \in Nat /\ kind # "upload" /\ NewLink(l, kind, n)
      BY <1>1 DEF Kinds, CreateDownloadLink
    <2>2. links' \in [Links -> LinkDocument] /\ BusyHasLink' /\ LinkShape' /\ LandedTook'
      BY <2>1, NewLinkTyped
    <2> QED BY <1>1, <2>2 DEF CreateDownloadLink, NewLink, Typed, LinksTypeOK
  <1>2. ASSUME CreateUploadLink(l)
        PROVE  Typed'
    <2>1. links' \in [Links -> LinkDocument] /\ BusyHasLink' /\ LinkShape' /\ LandedTook'
      BY <1>2, NewLinkTyped DEF CreateUploadLink, Kinds
    <2> QED BY <1>2, <2>1 DEF CreateUploadLink, NewLink, Typed, LinksTypeOK
  <1>3. ASSUME NEW d \in LinkDocument, links[l].state # "unborn", d.state # "unborn",
               d.kind = links[l].kind, d.limit = links[l].limit,
               links' = [links EXCEPT ![l] = d], UNCHANGED <<target, asks, landed>>
        PROVE  Typed'
    BY <1>3, LinkStepTyped DEF Typed, LinksTypeOK, LandedTook
  <1>4. links[l] \in LinkDocument
    BY DEF Typed, LinksTypeOK
  <1>5. CASE Revoke(l)
    <2> DEFINE d == [links[l] EXCEPT !.revoked = TRUE]
    <2>1. d \in LinkDocument /\ d.state = links[l].state /\ d.kind = links[l].kind
          /\ d.limit = links[l].limit
      BY <1>4 DEF LinkDocument
    <2>2. links' = [links EXCEPT ![l] = d]
      BY <1>5 DEF Revoke
    <2> HIDE DEF d
    <2> QED BY <1>3, <1>5, <2>1, <2>2 DEF Revoke
  <1>6. CASE ExpireLink(l)
    <2> DEFINE d == [links[l] EXCEPT !.expired = TRUE]
    <2>1. d \in LinkDocument /\ d.state = links[l].state /\ d.kind = links[l].kind
          /\ d.limit = links[l].limit
      BY <1>4 DEF LinkDocument
    <2>2. links' = [links EXCEPT ![l] = d]
      BY <1>6 DEF ExpireLink
    <2> HIDE DEF d
    <2> QED BY <1>3, <1>6, <2>1, <2>2 DEF ExpireLink
  <1>7. CASE Purge(l)
    <2> DEFINE d == [links[l] EXCEPT !.state = "purged"]
    <2>1. d \in LinkDocument /\ d.state = "purged" /\ d.kind = links[l].kind
          /\ d.limit = links[l].limit
      BY <1>4 DEF LinkDocument
    <2>2. links' = [links EXCEPT ![l] = d]
      BY <1>7 DEF Purge
    <2> HIDE DEF d
    <2> QED BY <1>3, <1>7, <2>1, <2>2 DEF Purge
  <1>8. CASE TargetChanges(l)
    BY <1>8 DEF TargetChanges, Typed, LinksTypeOK, BusyHasLink, LinkShape, LandedTook
  <1> QED BY <1>1, <1>2, <1>5, <1>6, <1>7, <1>8 DEF OwnerStep

\* Requests.
LEMMA AskTyped ==
    ASSUME Typed, NEW a \in Asks, StartAsk(a) \/ AskStep(a)
    PROVE  Typed'
  <1>1. ASSUME NEW what \in {"look", "reveal", "download", "upload"}, NEW l \in Links,
               NEW ok \in BOOLEAN, Peek(a, what, l, ok)
        PROVE  Typed'
    <2> DEFINE pc == IF ~(Resolves(what, links[l].kind) /\ Usable(links[l]) /\ ok) THEN "refused"
                     ELSE IF what = "look" THEN "looked" ELSE "checked"
               r == [pc |-> pc, what |-> what, link |-> l, seen |-> links[l].used]
    <2>1. asks' = [asks EXCEPT ![a] = r] /\ UNCHANGED <<links, target, landed>>
          /\ asks[a].pc = "idle" /\ links[l].state = "live"
      BY <1>1 DEF Peek
    <2>2. pc \in {"refused", "looked", "checked"}
          /\ (pc = "checked" => Resolves(what, links[l].kind))
      OBVIOUS
    <2> HIDE DEF pc
    <2>3. r \in AskState /\ r.pc = pc /\ r.link = l /\ r.what = what
      BY <2>2 DEF AskState, Typed, LinksTypeOK, LinkDocument
    <2> HIDE DEF r
    <2>4. asks' \in [Asks -> AskState]
      BY <2>1, <2>3 DEF Typed, LinksTypeOK
    <2>5. BusyHasLink'
      BY <2>1, <2>2, <2>3 DEF Typed, LinksTypeOK, BusyHasLink, InFlight
    <2>6. LandedTook'
      BY <2>1, <2>3 DEF Typed, LinksTypeOK, LandedTook
    <2> QED BY <2>1, <2>4, <2>5, <2>6 DEF Typed, LinksTypeOK, LinkShape
  <1>2. ASSUME NEW answer \in {"granted", "spent"}, TryConsumeView(a, answer)
        PROVE  Typed'
    <2> DEFINE l == asks[a].link
               n == links[l].used + 1
               d == [links[l] EXCEPT !.used = n]
    <2>1. l \in Links /\ links[l] \in LinkDocument /\ links[l].state = "live"
      BY <1>2 DEF TryConsumeView, Typed, LinksTypeOK, BusyHasLink, InFlight
    <2>2. n \in Nat
      BY <2>1 DEF LinkDocument
    <2>3. links' = [links EXCEPT ![l] = d]
      BY <1>2 DEF TryConsumeView
    <2> HIDE DEF l, n
    <2>4. d \in LinkDocument /\ d.state = links[l].state /\ d.kind = links[l].kind
          /\ d.limit = links[l].limit
      BY <2>1, <2>2 DEF LinkDocument
    <2> HIDE DEF d
    <2>5. links' \in [Links -> LinkDocument] /\ LinkShape'
      BY <2>1, <2>3, <2>4, LinkStepTyped
    <2>6. a \notin landed
      BY <1>2 DEF TryConsumeView, Typed, LandedTook
    <2>7. asks' \in [Asks -> AskState] /\ BusyHasLink' /\ LandedTook'
      BY <1>2, <2>1, <2>3, <2>4, <2>5, <2>6, AskStepTyped
      DEF TryConsumeView, InFlight, Typed, LinksTypeOK
    <2> QED BY <1>2, <2>5, <2>7 DEF TryConsumeView, Typed, LinksTypeOK
  <1>3. ASSUME asks[a].pc \in InFlight, NEW pc \in InFlight \union {"refused"}, AskGoesTo(a, pc),
               a \in landed => pc \in {"stored", "served", "spent"},
               UNCHANGED <<links, landed>>,
               target' \in [Links -> {"none", "unready", "ready", "gone"}]
        PROVE  Typed'
    BY <1>3, AskStepTyped DEF Typed, LinksTypeOK, LinkShape
  <1>4. CASE ConsumeFails(a)
    <2>1. a \notin landed
      BY <1>4 DEF ConsumeFails, Typed, LandedTook
    <2> QED BY <1>3, <1>4, <2>1 DEF ConsumeFails, InFlight, Typed, LinksTypeOK
  <1>5. CASE Serve(a)
    BY <1>3, <1>5 DEF Serve, InFlight, Typed, LinksTypeOK
  <1>6. CASE AcceptUpload(a)
    <2>1. asks' \in [Asks -> AskState]
      BY <1>6 DEF AcceptUpload, AskGoesTo, Typed, LinksTypeOK, AskState
    <2>2. \A b \in Asks : /\ asks'[b].link = asks[b].link
                          /\ asks'[b].what = asks[b].what
                          /\ asks'[b].pc = IF b = a THEN "stored" ELSE asks[b].pc
      BY <1>6 DEF AcceptUpload, AskGoesTo, Typed, LinksTypeOK, AskState
    <2>3. BusyHasLink'
      BY <1>6, <2>2 DEF AcceptUpload, Typed, BusyHasLink, InFlight
    <2>4. LandedTook'
      BY <1>6, <2>2 DEF AcceptUpload, Typed, LinksTypeOK, LandedTook
    <2> QED BY <1>6, <2>1, <2>3, <2>4 DEF AcceptUpload, Typed, LinksTypeOK, LinkShape
  <1>7. CASE Attach(a)
    BY <1>3, <1>7 DEF Attach, InFlight, Typed, LinksTypeOK
  <1>8. CASE AskFails(a)
    <2>1. CASE asks[a].pc = "checked" /\ AskGoesTo(a, "refused")
      <3>1. a \notin landed
        BY <2>1 DEF Typed, LandedTook
      <3> QED BY <1>3, <1>8, <2>1, <3>1 DEF AskFails, InFlight, Typed, LinksTypeOK
    <2>2. CASE asks[a].pc \in {"granted", "stored"} /\ AskGoesTo(a, "spent")
      BY <1>3, <1>8, <2>2 DEF AskFails, InFlight, Typed, LinksTypeOK
    <2> QED BY <1>8, <2>1, <2>2 DEF AskFails
  <1> QED
    BY <1>1, <1>2, <1>4, <1>5, <1>6, <1>7, <1>8 DEF StartAsk, AskStep

LEMMA TypedStep == Typed /\ [LinksNext]_linkVars => Typed'
  <1>1. CASE UNCHANGED linkVars
    BY <1>1 DEF linkVars, Typed, LinksTypeOK, BusyHasLink, LinkShape, LandedTook
  <1> QED
    BY <1>1, OwnerTyped, AskTyped DEF LinksNext

\* Documents, requests and targets keep their types, and the counter stays a
\* natural number.
THEOREM LinksTypeCorrect == LinksSpec => []LinksTypeOK
  BY TypedInit, TypedStep, PTL DEF LinksSpec, Typed

-----------------------------------------------------------------------------
(* Counting *)

\* Only finitely many requests take a use.
LEMMA TookFinite ==
    ASSUME NEW l
    PROVE  IsFiniteSet(Took(l)) /\ Cardinality(Took(l)) \in Nat
  <1>1. Took(l) \in SUBSET Asks
    BY DEF Took
  <1> QED BY <1>1, FS_Subset, FS_CardinalityType, ShareLinksAssumption

\* What a step does to the documents and to the set of requests that took a use
\* is one of three things: nothing to either, a change of one document that
\* leaves its counter alone, or one use taken and counted.
QuietStep ==
    /\ UNCHANGED links
    /\ \A l \in Links : Took(l)' = Took(l)

DocumentStep(l) ==
    /\ \A k \in Links : Took(k)' = Took(k)
    /\ \A k \in Links \ {l} : links'[k] = links[k]
    /\ links'[l].used = links[l].used
    /\ links'[l].limit = links[l].limit \/ links'[l].used = 0
    /\ \/ \E n \in Limits \union {1} : links[l].state = "unborn" /\ links'[l].state = "live"
                /\ links'[l].limit = n /\ ~links'[l].revoked
       \/ /\ links[l].state = "live" /\ links'[l].state \in {"live", "purged"}
          /\ links'[l].limit = links[l].limit
          /\ links[l].revoked => links'[l].revoked

UseStep(a, l) ==
    /\ a \notin Took(l)
    /\ Took(l)' = Took(l) \union {a}
    /\ \A k \in Links \ {l} : Took(k)' = Took(k) /\ links'[k] = links[k]
    /\ links[l].state = "live" /\ ~links[l].revoked
    /\ WithinLimits(links[l].limit, links[l].used)
    /\ links'[l] = [links[l] EXCEPT !.used = links[l].used + 1]

LEMMA StepKinds ==
    ASSUME Typed, [LinksNext]_linkVars
    PROVE  \/ QuietStep
           \/ \E l \in Links : DocumentStep(l)
           \/ \E a \in Asks, l \in Links : UseStep(a, l)
  <1>1. ASSUME NEW l \in Links, OwnerStep(l)
        PROVE  QuietStep \/ DocumentStep(l)
    <2>1. UNCHANGED asks
      BY <1>1 DEF OwnerStep, CreateDownloadLink, CreateUploadLink, NewLink, Revoke, ExpireLink,
                  Purge, TargetChanges
    <2>2. \A k \in Links : Took(k)' = Took(k)
      BY <2>1 DEF Took
    <2>3. ASSUME NEW kind, NEW n \in Limits \union {1}, NewLink(l, kind, n)
          PROVE  DocumentStep(l)
      BY <2>2, <2>3 DEF NewLink, DocumentStep, Typed, LinksTypeOK, LinkShape
    <2>4. CASE Revoke(l)
      BY <2>2, <2>4 DEF Revoke, DocumentStep, Typed, LinksTypeOK, LinkDocument
    <2>5. CASE ExpireLink(l)
      BY <2>2, <2>5 DEF ExpireLink, DocumentStep, Typed, LinksTypeOK, LinkDocument
    <2>6. CASE Purge(l)
      BY <2>2, <2>6 DEF Purge, DocumentStep, Typed, LinksTypeOK, LinkDocument
    <2>7. CASE TargetChanges(l)
      BY <2>2, <2>7 DEF TargetChanges, QuietStep
    <2> QED
      BY <1>1, <2>3, <2>4, <2>5, <2>6, <2>7
      DEF OwnerStep, CreateDownloadLink, CreateUploadLink
  <1>2. ASSUME NEW a \in Asks, StartAsk(a) \/ AskStep(a)
        PROVE  QuietStep \/ \E l \in Links : UseStep(a, l)
    <2>1. ASSUME UNCHANGED links, NEW pc, asks[a].pc \in Taken <=> pc \in Taken, AskGoesTo(a, pc)
          PROVE  QuietStep
      BY <2>1 DEF QuietStep, Took, AskGoesTo, Typed, LinksTypeOK, AskState, Taken
    <2>2. ASSUME NEW what \in {"look", "reveal", "download", "upload"}, NEW l \in Links,
                 NEW ok \in BOOLEAN, Peek(a, what, l, ok)
          PROVE  QuietStep
      <3>1. /\ UNCHANGED links /\ asks[a].pc = "idle"
            /\ asks'[a].pc \in {"refused", "looked", "checked"}
            /\ \A b \in Asks \ {a} : asks'[b] = asks[b]
        BY <2>2 DEF Peek, Typed, LinksTypeOK
      <3> QED BY <3>1 DEF QuietStep, Took
    <2>3. ASSUME NEW answer \in {"granted", "spent"}, TryConsumeView(a, answer)
          PROVE  \E l \in Links : UseStep(a, l)
      <3> DEFINE l == asks[a].link
      <3>1. l \in Links /\ asks[a].pc = "checked"
        BY <2>3 DEF TryConsumeView, Typed, BusyHasLink, InFlight
      <3>2. links' = [links EXCEPT ![l] = [links[l] EXCEPT !.used = links[l].used + 1]]
        BY <2>3 DEF TryConsumeView
      <3>3. \A b \in Asks : /\ asks'[b].link = asks[b].link
                            /\ asks'[b].pc = IF b = a THEN answer ELSE asks[b].pc
        BY <2>3 DEF TryConsumeView, AskGoesTo, Typed, LinksTypeOK, AskState
      <3>4. a \notin Took(l) /\ Took(l)' = Took(l) \union {a}
        BY <3>1, <3>3 DEF Took
      <3>5. \A k \in Links \ {l} : Took(k)' = Took(k)
        BY <3>1, <3>3 DEF Took
      <3>6. /\ links[l].state = "live" /\ ~links[l].revoked
            /\ WithinLimits(links[l].limit, links[l].used)
        BY <2>3 DEF TryConsumeView
      <3> HIDE DEF l
      <3>7. UseStep(a, l)
        <4>1. links'[l] = [links[l] EXCEPT !.used = links[l].used + 1]
          BY <3>1, <3>2 DEF Typed, LinksTypeOK
        <4>2. \A k \in Links \ {l} : links'[k] = links[k]
          BY <3>2 DEF Typed, LinksTypeOK
        <4> QED BY <3>4, <3>5, <3>6, <4>1, <4>2 DEF UseStep
      <3> QED BY <3>1, <3>7
    <2> QED
      BY <1>2, <2>1, <2>2, <2>3
      DEF StartAsk, AskStep, ConsumeFails, Serve, AcceptUpload, Attach, AskFails, Taken
  <1>3. CASE UNCHANGED linkVars
    BY <1>3 DEF linkVars, QuietStep, Took
  <1> QED BY <1>1, <1>2, <1>3 DEF LinksNext

\* The counter and the requests move together.
LEMMA CountedStep ==
    ASSUME Typed, UsesCounted, [LinksNext]_linkVars
    PROVE  UsesCounted'
  <1>1. CASE QuietStep
    BY <1>1 DEF QuietStep, UsesCounted
  <1>2. ASSUME NEW l \in Links, DocumentStep(l)
        PROVE  UsesCounted'
    BY <1>2 DEF DocumentStep, UsesCounted
  <1>3. ASSUME NEW a \in Asks, NEW l \in Links, UseStep(a, l)
        PROVE  UsesCounted'
    <2>1. Cardinality(Took(l)') = links[l].used + 1
      <3>1. a \notin Took(l) /\ Took(l)' = Took(l) \union {a}
        BY <1>3 DEF UseStep
      <3>2. IsFiniteSet(Took(l))
        BY TookFinite
      <3>3. Cardinality(Took(l) \union {a}) = Cardinality(Took(l)) + 1
        BY <3>1, <3>2, FS_AddElement
      <3>4. Cardinality(Took(l)) = links[l].used
        BY DEF UsesCounted
      <3> QED BY <3>1, <3>3, <3>4
    <2>2. links'[l].used = links[l].used + 1
      BY <1>3 DEF UseStep, Typed, LinksTypeOK, LinkDocument
    <2> QED BY <1>3, <2>1, <2>2 DEF UseStep, UsesCounted
  <1> QED BY <1>1, <1>2, <1>3, StepKinds

LEMMA CountedInit == LinksInit => UsesCounted
  <1> SUFFICES ASSUME LinksInit, NEW l \in Links PROVE links[l].used = Cardinality(Took(l))
    BY DEF UsesCounted
  <1>1. Took(l) = {}
    BY DEF LinksInit, IdleAsk, Took
  <1>2. links[l].used = 0
    BY DEF LinksInit, UnbornLink
  <1> QED BY <1>1, <1>2, FS_EmptySet

LEMMA LimitStep ==
    ASSUME Typed, WithinLimit, [LinksNext]_linkVars
    PROVE  WithinLimit'
  <1>1. CASE QuietStep
    BY <1>1 DEF QuietStep, WithinLimit
  <1>2. ASSUME NEW l \in Links, DocumentStep(l)
        PROVE  WithinLimit'
    <2>1. links'[l].used = links[l].used
      BY <1>2 DEF DocumentStep
    <2>2. links'[l].limit = links[l].limit \/ links'[l].used = 0
      BY <1>2 DEF DocumentStep
    <2>3. links'[l].limit > 0 => links'[l].used <= links'[l].limit
      <3>1. CASE links'[l].limit = links[l].limit
        BY <2>1, <3>1 DEF WithinLimit
      <3>2. CASE links'[l].used = 0
        <4>1. links'[l].limit \in Nat
          BY TypedStep DEF Typed, LinksTypeOK, LinkDocument
        <4> QED BY <3>2, <4>1
      <3> QED BY <2>2, <3>1, <3>2
    <2>4. \A k \in Links \ {l} : links'[k] = links[k]
      BY <1>2 DEF DocumentStep
    <2> QED BY <2>3, <2>4 DEF WithinLimit
  <1>3. ASSUME NEW a \in Asks, NEW l \in Links, UseStep(a, l)
        PROVE  WithinLimit'
    BY <1>3 DEF UseStep, WithinLimit, WithinLimits, Typed, LinksTypeOK, LinkDocument
  <1> QED BY <1>1, <1>2, <1>3, StepKinds

\* The inductive invariant.
Counts == Typed /\ UsesCounted /\ WithinLimit

LEMMA CountsInvariant == LinksSpec => []Counts
  <1>1. LinksInit => Counts
    BY TypedInit, CountedInit DEF Counts, WithinLimit, LinksInit, UnbornLink
  <1>2. Counts /\ [LinksNext]_linkVars => Counts'
    BY TypedStep, CountedStep, LimitStep DEF Counts
  <1> QED BY <1>1, <1>2, PTL DEF LinksSpec

\* The counter of a link is exactly the number of requests that took a use of it.
THEOREM UsesExactlyCounted == LinksSpec => []UsesCounted
  BY CountsInvariant, PTL DEF Counts

\* No link with a limit is used more often than its limit allows.
THEOREM LimitHolds == LinksSpec => []WithinLimit
  BY CountsInvariant, PTL DEF Counts

\* A guest link lets in at most one file.
THEOREM OneFileLands == LinksSpec => []OneFilePerUploadLink
  <1>1. Counts => OneFilePerUploadLink
    <2> SUFFICES ASSUME Counts, NEW l \in Links, links[l].kind = "upload"
                 PROVE  Cardinality({a \in landed : asks[a].link = l}) <= 1
      BY DEF OneFilePerUploadLink
    <2> DEFINE T == {a \in landed : asks[a].link = l}
    <2>1. T \in SUBSET Took(l)
      BY DEF Counts, Typed, LinksTypeOK, LandedTook, Took
    <2>2. IsFiniteSet(T) /\ Cardinality(T) <= Cardinality(Took(l))
      BY <2>1, TookFinite, FS_Subset
    <2>3. Cardinality(Took(l)) <= 1
      BY DEF Counts, Typed, LinksTypeOK, LinkDocument, LinkShape, UsesCounted, WithinLimit
    <2>4. Cardinality(T) \in Nat /\ Cardinality(Took(l)) \in Nat
      BY <2>2, TookFinite, FS_CardinalityType
    <2> HIDE DEF T
    <2>5. Cardinality(T) <= 1
      BY <2>2, <2>3, <2>4
    <2> QED BY <2>5 DEF T
  <1> QED BY <1>1, CountsInvariant, PTL

\* No use of a link is taken once it is revoked, and no revocation is undone.
THEOREM RevocationHolds == LinksSpec => RevokedStaysUnused
  <1>1. Typed /\ [LinksNext]_linkVars =>
          [\A l \in Links : links[l].revoked =>
             /\ links'[l].used = links[l].used
             /\ links'[l].revoked]_linkVars
    <2> SUFFICES ASSUME Typed, [LinksNext]_linkVars, NEW k \in Links, links[k].revoked
                 PROVE  links'[k].used = links[k].used /\ links'[k].revoked
      OBVIOUS
    <2>0. links[k].state # "unborn"
      BY DEF Typed, LinkShape
    <2>1. CASE QuietStep
      BY <2>1 DEF QuietStep
    <2>2. ASSUME NEW l \in Links, DocumentStep(l)
          PROVE  links'[k].used = links[k].used /\ links'[k].revoked
      BY <2>0, <2>2 DEF DocumentStep
    <2>3. ASSUME NEW a \in Asks, NEW l \in Links, UseStep(a, l)
          PROVE  links'[k].used = links[k].used /\ links'[k].revoked
      BY <2>3 DEF UseStep
    <2> QED BY <2>1, <2>2, <2>3, StepKinds
  <1> QED BY <1>1, CountsInvariant, PTL DEF LinksSpec, Counts, RevokedStaysUnused

-----------------------------------------------------------------------------
(* The promise *)

\* The abstract state, written with the counter of the documents.
Phase(d) == IF d.state = "unborn" THEN "unborn"
            ELSE IF d.state = "purged" \/ d.revoked THEN "closed" ELSE "open"

Phases == [l \in Links |-> Phase(links[l])]
Limit  == [l \in Links |-> links[l].limit]
Uses   == [l \in Links |-> links[l].used]

LEMMA PhaseMap ==
    [l \in Links |-> IF links[l].state = "unborn" THEN "unborn"
                    ELSE IF links[l].state = "purged" \/ links[l].revoked THEN "closed"
                    ELSE "open"] = Phases
  BY DEF Phases, Phase

LEMMA UsesMap == UsesCounted => [l \in Links |-> Cardinality(Took(l))] = Uses
  BY DEF Uses, UsesCounted

\* Initially nothing is open and nothing is used.
LEMMA PromiseInit == LinksInit => Promise!Init
  <1> SUFFICES ASSUME LinksInit PROVE Promise!Init
    OBVIOUS
  <1>1. Uses = [l \in Links |-> 0]
    BY DEF Uses, LinksInit, UnbornLink
  <1>2. Phases = [l \in Links |-> "unborn"]
    BY DEF Phases, Phase, LinksInit, UnbornLink
  <1>3. Limit = [l \in Links |-> 0]
    BY DEF Limit, LinksInit, UnbornLink
  <1>4. [l \in Links |-> Cardinality(Took(l))] = Uses
    BY CountedInit, UsesMap
  <1> QED BY <1>1, <1>2, <1>3, <1>4, PhaseMap DEF Promise!Init, Limit

\* Every step opens, uses or closes one link, or changes nothing the promise
\* speaks of.
LEMMA PromiseStep ==
    ASSUME Counts, Counts', [LinksNext]_linkVars
    PROVE  [Promise!Next]_(Promise!budget)
  <1> DEFINE Goal == [Promise!Next]_(Promise!budget)
  <1>1. /\ [l \in Links |-> Cardinality(Took(l))] = Uses
        /\ [l \in Links |-> Cardinality(Took(l))]' = Uses'
    BY UsesMap DEF Counts, UsesCounted, Uses
  <1>2. \A l \in Links : links[l] \in LinkDocument /\ links'[l] \in LinkDocument
    BY DEF Counts, Typed, LinksTypeOK
  <1>3. CASE Uses' = Uses /\ Phases' = Phases /\ Limit' = Limit
    BY <1>1, <1>3, PhaseMap DEF Promise!budget, Limit, Phases, Phase
  <1>4. ASSUME NEW l \in Links, NEW n \in Limits \union {1}, Phases[l] = "unborn",
               Phases' = [Phases EXCEPT ![l] = "open"],
               Limit' = [Limit EXCEPT ![l] = n], Uses' = Uses
        PROVE  Goal
    BY <1>1, <1>4, PhaseMap DEF Promise!Next, Promise!Open, Limit, Phases, Phase
  <1>5. ASSUME NEW l \in Links, Phases[l] = "open",
               Phases' = [Phases EXCEPT ![l] = "closed"], Limit' = Limit, Uses' = Uses
        PROVE  Goal
    BY <1>1, <1>5, PhaseMap DEF Promise!Next, Promise!Close, Limit, Phases, Phase
  <1>6. ASSUME NEW l \in Links, Phases[l] = "open", Limit[l] = 0 \/ Uses[l] < Limit[l],
               Uses' = [Uses EXCEPT ![l] = Uses[l] + 1], Phases' = Phases, Limit' = Limit
        PROVE  Goal
    BY <1>1, <1>6, PhaseMap DEF Promise!Next, Promise!Use, Limit, Phases, Phase
  <1>7. CASE QuietStep
    BY <1>3, <1>7 DEF QuietStep, Uses, Phases, Limit
  <1>8. ASSUME NEW l \in Links, DocumentStep(l)
        PROVE  Goal
    <2>1. Uses' = Uses
      BY <1>8 DEF DocumentStep, Uses
    <2>2. ASSUME NEW n \in Limits \union {1}, links[l].state = "unborn",
                 links'[l].state = "live", links'[l].limit = n, ~links'[l].revoked
          PROVE  Goal
      <3>1. Limit' = [Limit EXCEPT ![l] = n]
        BY <1>8, <2>2 DEF DocumentStep, Limit
      <3>2. Phases[l] = "unborn" /\ Phases' = [Phases EXCEPT ![l] = "open"]
        BY <1>8, <2>2 DEF DocumentStep, Phases, Phase
      <3> QED BY <1>4, <2>1, <3>1, <3>2
    <2>3. CASE /\ links[l].state = "live" /\ links'[l].state \in {"live", "purged"}
               /\ links'[l].limit = links[l].limit
               /\ links[l].revoked => links'[l].revoked
      <3>1. Limit' = Limit
        BY <1>8, <2>3 DEF DocumentStep, Limit
      <3>2. \A k \in Links \ {l} : Phase(links'[k]) = Phase(links[k])
        BY <1>8 DEF DocumentStep, Phase
      <3>3. CASE Phase(links'[l]) = Phase(links[l])
        <4>1. Phases' = Phases
          BY <3>2, <3>3 DEF Phases
        <4> QED BY <1>3, <2>1, <3>1, <4>1
      <3>4. CASE Phase(links'[l]) # Phase(links[l])
        <4>1. Phase(links[l]) = "open" /\ Phase(links'[l]) = "closed"
          BY <2>3, <3>4 DEF Phase
        <4>2. Phases[l] = "open" /\ Phases' = [Phases EXCEPT ![l] = "closed"]
          BY <3>2, <4>1 DEF Phases
        <4> QED BY <1>5, <2>1, <3>1, <4>2
      <3> QED BY <3>3, <3>4
    <2> QED BY <1>8, <2>2, <2>3 DEF DocumentStep
  <1>9. ASSUME NEW a \in Asks, NEW l \in Links, UseStep(a, l)
        PROVE  Goal
    <2>1. /\ links'[l].used = links[l].used + 1 /\ links'[l].limit = links[l].limit
          /\ links'[l].state = links[l].state /\ links'[l].revoked = links[l].revoked
      BY <1>2, <1>9 DEF UseStep, LinkDocument
    <2>2. Uses' = [Uses EXCEPT ![l] = Uses[l] + 1]
      BY <1>9, <2>1 DEF UseStep, Uses
    <2>3. Phases' = Phases /\ Phases[l] = "open" /\ Limit' = Limit
      BY <1>9, <2>1 DEF UseStep, Phases, Phase, Limit
    <2>4. Limit[l] = 0 \/ Uses[l] < Limit[l]
      BY <1>9 DEF UseStep, WithinLimits, Limit, Uses
    <2> QED BY <1>6, <2>2, <2>3, <2>4
  <1> QED BY <1>7, <1>8, <1>9, StepKinds DEF Counts

\* Whatever number of requests resolve a link at the same time, its owner's
\* promise is kept: it is used within its limit and never after it is closed.
THEOREM RequestsKeepPromise == LinksSpec => KeepsPromise
  <1>1. Counts /\ Counts' /\ [LinksNext]_linkVars => [Promise!Next]_(Promise!budget)
    BY PromiseStep
  <1> QED
    BY <1>1, PromiseInit, CountsInvariant, PTL DEF LinksSpec, KeepsPromise, Promise!Spec

-----------------------------------------------------------------------------
(* The vault *)

Cabinet == [state : States, by : Users \union {None}, members : SUBSET Users]
Folder == [state : States, cabinet : Cabinets \union {None},
           parent : Folders \union {None}, name : Names \union {None}]
Entry == [state : States, cabinet : Cabinets \union {None}, folder : Folders \union {None}]

\* A folder to be deleted is named in the request that deletes it.
Request ==
    {r \in [pc : Pcs, cabinet : Cabinets \union {None}, folder : Folders \union {None},
            entry : Entries \union {None}, name : Names \union {None}, todo : SUBSET Folders] :
       r.pc = "collect" => r.folder \in Folders}

WellTyped ==
    /\ cabinets \in [Cabinets -> Cabinet] /\ folders \in [Folders -> Folder]
    /\ entries \in [Entries -> Entry] /\ work \in [Workers -> Request]
    /\ calm \in BOOLEAN /\ plan \in Plans

-----------------------------------------------------------------------------
(* Types *)

LEMMA RestIsRequest == Rest \in Request /\ Rest.pc = "idle"
  BY DEF Rest, Request, Pcs

LEMMA Gone ==
    /\ NoCabinet \in Cabinet /\ [NoCabinet EXCEPT !.state = "deleted"] \in Cabinet
    /\ NoFolder \in Folder
    /\ NoEntry \in Entry /\ [NoEntry EXCEPT !.state = "deleted"] \in Entry
  BY DEF NoCabinet, NoFolder, NoEntry, Cabinet, Folder, Entry, States

LEMMA InitTyped == VaultInit => WellTyped
  BY RestIsRequest, Gone DEF VaultInit, WellTyped

\* A request in another state, or with less to do.
LEMMA RequestMoves ==
    ASSUME NEW r \in Request
    PROVE  /\ \A pc \in Pcs \ {"collect"} : [r EXCEPT !.pc = pc] \in Request
           /\ \A todo \in SUBSET Folders : [r EXCEPT !.todo = todo] \in Request
           /\ \A pc \in Pcs \ {"collect"}, todo \in SUBSET Folders : [r EXCEPT !.pc = pc, !.todo = todo] \in Request
  BY DEF Request

\* What the steps of one request do to its own state.
LEMMA RequestTyped ==
    ASSUME WellTyped, NEW w \in Workers
    PROVE  /\ Finish(w) => work' \in [Workers -> Request]
           /\ \A r \in Request : Begins(w, r) => work' \in [Workers -> Request]
           /\ \A pc \in Pcs \ {"collect"} : GoesTo(w, pc) => work' \in [Workers -> Request]
  <1>1. work \in [Workers -> Request]
    BY DEF WellTyped
  <1>2. \A r \in Request : [work EXCEPT ![w] = r] \in [Workers -> Request]
    BY <1>1
  <1>3. \A pc \in Pcs \ {"collect"} : [work EXCEPT ![w].pc = pc] \in [Workers -> Request]
    BY <1>1, RequestMoves
  <1> QED BY <1>2, <1>3, RestIsRequest DEF Finish, Begins, GoesTo

LEMMA CabinetTyped ==
    ASSUME WellTyped, NEW u \in Users, AtOnce(u)
    PROVE  /\ cabinets' \in [Cabinets -> Cabinet]
           /\ UNCHANGED <<folders, entries, work>>
  <1>0. cabinets \in [Cabinets -> Cabinet]
    BY DEF WellTyped
  <1>1. CASE CreateCabinet(u)
    BY <1>0, <1>1 DEF CreateCabinet, Cabinet, States
  <1>2. ASSUME NEW c \in Cabinets, SetMember(u, c)
        PROVE  /\ cabinets' \in [Cabinets -> Cabinet]
               /\ UNCHANGED <<folders, entries, work>>
    <2>1. PICK v \in Users : \/ cabinets' = [cabinets EXCEPT ![c].members = @ \union {v}]
                             \/ cabinets' = [cabinets EXCEPT ![c].members = @ \ {v}]
      BY <1>2 DEF SetMember
    <2>2. \A m \in SUBSET Users : [cabinets[c] EXCEPT !.members = m] \in Cabinet
      BY <1>0 DEF Cabinet
    <2>3. cabinets[c].members \union {v} \in SUBSET Users
          /\ cabinets[c].members \ {v} \in SUBSET Users
      BY <1>0 DEF Cabinet
    <2> QED BY <1>0, <1>2, <2>1, <2>2, <2>3 DEF SetMember
  <1> QED BY <1>1, <1>2 DEF AtOnce

\* How a request begins, whatever it is about: its parent folder is the root or
\* is yet to be looked for, and the cabinet of a new entry is there.
Started(w) ==
    /\ Idle(w)
    /\ UNCHANGED <<cabinets, folders, entries>>
    /\ \E r \in Request :
         /\ Begins(w, r)
         /\ r.pc \in {"drop_entries", "folder_parent", "folder_name", "rename", "collect",
                      "entry_insert", "move", "drop_entry"}
         /\ r.pc = "folder_name" => r.folder = None
         /\ r.pc = "entry_insert" => r.cabinet \in Alive(cabinets)

LEMMA StartStarts ==
    ASSUME WellTyped, NEW w \in Workers, NEW u \in Users,
           \/ \E c \in Cabinets : StartDropCabinet(w, u, c)
           \/ FolderStep(w, u)
           \/ EntryStep(w, u)
    PROVE  Started(w)
  <1>1. ASSUME NEW c \in Cabinets, StartDropCabinet(w, u, c)
        PROVE  Started(w)
    <2> DEFINE r == [Rest EXCEPT !.pc = "drop_entries", !.cabinet = c]
    <2>1. r \in Request /\ r.pc = "drop_entries"
      BY RestIsRequest DEF Request, Pcs
    <2>2. Begins(w, r) /\ Idle(w) /\ UNCHANGED <<cabinets, folders, entries>>
      BY <1>1 DEF StartDropCabinet
    <2> HIDE DEF r
    <2> QED BY <2>1, <2>2 DEF Started
  <1>2. ASSUME NEW c \in Cabinets, NEW p \in Alive(folders) \union {None}, NEW n \in Names,
               StartFolder(w, u, c, p, n)
        PROVE  Started(w)
    <2> DEFINE pc == IF p = None THEN "folder_name" ELSE "folder_parent"
               r == [Rest EXCEPT !.pc = pc, !.cabinet = c, !.folder = p, !.name = n]
    <2>0. p \in Folders \union {None}
      BY DEF WellTyped, Alive
    <2>1. r \in Request /\ r.pc = pc /\ r.folder = p
      BY <2>0, RestIsRequest DEF Request, Pcs
    <2>2. Begins(w, r) /\ Idle(w) /\ UNCHANGED <<cabinets, folders, entries>>
      BY <1>2 DEF StartFolder
    <2> HIDE DEF r
    <2> QED BY <2>1, <2>2 DEF Started
  <1>3. ASSUME NEW f \in Folders, StartDropFolder(w, u, f)
        PROVE  Started(w)
    <2> DEFINE r == [Rest EXCEPT !.pc = "collect", !.folder = f]
    <2>1. r \in Request /\ r.pc = "collect"
      BY RestIsRequest DEF Request, Pcs
    <2>2. Begins(w, r) /\ Idle(w) /\ UNCHANGED <<cabinets, folders, entries>>
      BY <1>3 DEF StartDropFolder
    <2> HIDE DEF r
    <2> QED BY <2>1, <2>2 DEF Started
  <1>4. ASSUME NEW f \in Folders, NEW n \in Names, StartRename(w, u, f, n)
        PROVE  Started(w)
    <2> DEFINE r == [Rest EXCEPT !.pc = "rename", !.folder = f, !.name = n]
    <2>1. r \in Request /\ r.pc = "rename"
      BY RestIsRequest DEF Request, Pcs
    <2>2. Begins(w, r) /\ Idle(w) /\ UNCHANGED <<cabinets, folders, entries>>
      BY <1>4 DEF StartRename
    <2> HIDE DEF r
    <2> QED BY <2>1, <2>2 DEF Started
  <1>5. ASSUME NEW c \in Cabinets, NEW f \in Folders \union {None}, StartEntry(w, u, c, f)
        PROVE  Started(w)
    <2> DEFINE r == [Rest EXCEPT !.pc = "entry_insert", !.cabinet = c, !.folder = f]
    <2>1. r \in Request /\ r.pc = "entry_insert" /\ r.cabinet = c
      BY RestIsRequest DEF Request, Pcs
    <2>2. Begins(w, r) /\ Idle(w) /\ UNCHANGED <<cabinets, folders, entries>>
      BY <1>5 DEF StartEntry
    <2>3. c \in Alive(cabinets)
      BY <1>5 DEF StartEntry, MayRead
    <2> HIDE DEF r
    <2> QED BY <2>1, <2>2, <2>3 DEF Started
  <1>6. ASSUME NEW e \in Entries, NEW f \in Folders \union {None}, StartMove(w, u, e, f)
        PROVE  Started(w)
    <2> DEFINE r == [Rest EXCEPT !.pc = "move", !.entry = e, !.folder = f]
    <2>1. r \in Request /\ r.pc = "move"
      BY RestIsRequest DEF Request, Pcs
    <2>2. Begins(w, r) /\ Idle(w) /\ UNCHANGED <<cabinets, folders, entries>>
      BY <1>6 DEF StartMove
    <2> HIDE DEF r
    <2> QED BY <2>1, <2>2 DEF Started
  <1>7. ASSUME NEW e \in Entries, StartDropEntry(w, u, e)
        PROVE  Started(w)
    <2> DEFINE r == [Rest EXCEPT !.pc = "drop_entry", !.entry = e]
    <2>1. r \in Request /\ r.pc = "drop_entry"
      BY RestIsRequest DEF Request, Pcs
    <2>2. Begins(w, r) /\ Idle(w) /\ UNCHANGED <<cabinets, folders, entries>>
      BY <1>7 DEF StartDropEntry
    <2> HIDE DEF r
    <2> QED BY <2>1, <2>2 DEF Started
  <1> QED BY <1>1, <1>2, <1>3, <1>4, <1>5, <1>6, <1>7 DEF FolderStep, EntryStep

LEMMA GoOnTyped ==
    ASSUME WellTyped, NEW w \in Workers, GoOn(w)
    PROVE  /\ cabinets' \in [Cabinets -> Cabinet] /\ folders' \in [Folders -> Folder]
           /\ entries' \in [Entries -> Entry] /\ work' \in [Workers -> Request]
  <1>0. /\ cabinets \in [Cabinets -> Cabinet] /\ folders \in [Folders -> Folder]
        /\ entries \in [Entries -> Entry] /\ work \in [Workers -> Request]
    BY DEF WellTyped
  <1>1. CASE DropEntries(w)
    BY <1>0, <1>1, RequestTyped, Gone DEF DropEntries, Pcs
  <1>2. CASE DropCabinet(w)
    BY <1>0, <1>2, RequestTyped, Gone DEF DropCabinet
  <1>3. CASE FindParent(w) \/ FindName(w)
    BY <1>0, <1>3, RequestTyped DEF FindParent, FindName, Pcs
  <1>4. CASE InsertFolder(w)
    <2>1. PICK f \in Folders :
            folders' = [folders EXCEPT ![f] =
                          [state |-> "live", cabinet |-> work[w].cabinet,
                           parent |-> work[w].folder, name |-> work[w].name]]
      BY <1>4 DEF InsertFolder
    <2>2. [state |-> "live", cabinet |-> work[w].cabinet,
           parent |-> work[w].folder, name |-> work[w].name] \in Folder
      BY <1>0 DEF Request, Folder, States
    <2> QED BY <1>0, <1>4, <2>1, <2>2, RequestTyped DEF InsertFolder
  <1>5. CASE Rename(w)
    <2>1. folders' \in [Folders -> Folder]
      <3>1. \A f \in Folders : [folders[f] EXCEPT !.name = work[w].name] \in Folder
        <4>1. \A d \in Folder, n \in Names \union {None} : [d EXCEPT !.name = n] \in Folder
          BY DEF Folder
        <4>2. work[w].name \in Names \union {None}
          BY <1>0 DEF Request
        <4> QED BY <1>0, <4>1, <4>2
      <3>2. Alive(folders) \subseteq Folders
        BY <1>0 DEF Alive
      <3> QED BY <1>0, <1>5, <3>1, <3>2 DEF Rename
    <2> QED BY <1>0, <1>5, <2>1, RequestTyped DEF Rename
  <1>6. CASE Collect(w)
    <2>1. Below(work[w].folder) \subseteq Folders
      BY <1>0 DEF Below, InCabinet, Alive
    <2>2. work[w].folder \in Alive(folders) => work[w].folder \in Folders
      BY <1>0 DEF Alive
    <2>3. PICK todo \in SUBSET Folders :
            work' = [work EXCEPT ![w].pc = "drop_folders", ![w].todo = todo]
      <3>1. work[w].folder \in Folders
        BY <1>0, <1>6 DEF Collect, Request
      <3> QED BY <1>6, <2>1, <3>1 DEF Collect
    <2>4. work' \in [Workers -> Request]
      BY <1>0, <2>3, RequestMoves DEF Pcs
    <2> QED BY <1>0, <1>6, <2>4 DEF Collect
  <1>7. CASE DropFolder(w)
    <2>1. PICK f \in work[w].todo :
            /\ folders' = [folders EXCEPT ![f].state = "deleted"]
            /\ IF work[w].todo = {f} THEN Finish(w)
               ELSE work' = [work EXCEPT ![w].todo = @ \ {f}]
      BY <1>7 DEF DropFolder
    <2>2. folders' \in [Folders -> Folder]
      <3>1. \A g \in Folders : [folders[g] EXCEPT !.state = "deleted"] \in Folder
        BY <1>0 DEF Folder, States
      <3> QED
        BY <1>0, <2>1, <3>1
    <2>3. work' \in [Workers -> Request]
      BY <1>0, <2>1, RequestTyped DEF Request
    <2> QED BY <1>0, <1>7, <2>2, <2>3 DEF DropFolder
  <1>8. CASE InsertEntry(w)
    <2>1. [state |-> "live", cabinet |-> work[w].cabinet, folder |-> work[w].folder] \in Entry
      BY <1>0 DEF Request, Entry, States
    <2> QED BY <1>0, <1>8, <2>1, RequestTyped DEF InsertEntry
  <1>9. CASE Move(w)
    <2>1. entries' \in [Entries -> Entry]
      <3>1. work[w].folder \in Folders \union {None}
        BY <1>0 DEF Request
      <3>2. Alive(entries) \subseteq Entries
        BY <1>0 DEF Alive
      <3>3. CASE work[w].entry \in Alive(entries)
        <4> DEFINE e == [entries[work[w].entry] EXCEPT !.folder = work[w].folder]
        <4>1. e \in Entry
          BY <1>0, <3>1, <3>2, <3>3 DEF Entry
        <4>2. entries' = [entries EXCEPT ![work[w].entry] = e]
          BY <1>0, <1>9, <3>3 DEF Move
        <4> HIDE DEF e
        <4> QED BY <1>0, <3>2, <3>3, <4>1, <4>2
      <3>4. CASE work[w].entry \notin Alive(entries)
        BY <1>0, <1>9, <3>4 DEF Move
      <3> QED BY <3>3, <3>4
    <2> QED BY <1>0, <1>9, <2>1, RequestTyped DEF Move
  <1>10. CASE DropEntry(w)
    BY <1>0, <1>10, RequestTyped, Gone DEF DropEntry
  <1> QED BY <1>1, <1>2, <1>3, <1>4, <1>5, <1>6, <1>7, <1>8, <1>9, <1>10 DEF GoOn

LEMMA NextTyped == WellTyped /\ [VaultNext]_vaultVars => WellTyped'
  <1> SUFFICES ASSUME WellTyped, [VaultNext]_vaultVars PROVE WellTyped'
    OBVIOUS
  <1>1. ASSUME NEW w \in Workers, HandlerStep(w),
               calm' = (calm /\ Cardinality(Busy') <= 1), UNCHANGED plan
        PROVE  WellTyped'
    <2>1. calm' \in BOOLEAN
      BY <1>1, Zenon
    <2>2. /\ cabinets' \in [Cabinets -> Cabinet] /\ folders' \in [Folders -> Folder]
          /\ entries' \in [Entries -> Entry] /\ work' \in [Workers -> Request]
      <3>1. CASE GoOn(w)
        BY <3>1, GoOnTyped
      <3>2. CASE ~GoOn(w)
        <4>1. Started(w)
          BY <1>1, <3>2, StartStarts DEF HandlerStep
        <4> QED BY <4>1, RequestTyped DEF Started, WellTyped
      <3> QED BY <3>1, <3>2
    <2> QED BY <1>1, <2>1, <2>2 DEF WellTyped
  <1>2. ASSUME NEW w \in Workers, Fail(w), calm' = FALSE, UNCHANGED plan
        PROVE  WellTyped'
    BY <1>2, RequestTyped DEF Fail, WellTyped
  <1>3. ASSUME NEW u \in Users, AtOnce(u), UNCHANGED <<calm, plan>>
        PROVE  WellTyped'
    BY <1>3, CabinetTyped DEF WellTyped
  <1>4. CASE UNCHANGED vaultVars
    BY <1>4 DEF vaultVars, WellTyped
  <1> QED BY <1>1, <1>2, <1>3, <1>4 DEF VaultNext

\* The collections and the requests under way keep their types
\* (models/cabinet.py, folder.py, password_entry.py).
THEOREM VaultTyped == VaultSpec => []VaultTypeOK
<1>1. WellTyped => VaultTypeOK
  BY DEF WellTyped, VaultTypeOK, Cabinet, Folder, Entry, Request
<1> QED BY <1>1, InitTyped, NextTyped, PTL DEF VaultSpec


-----------------------------------------------------------------------------
(* Trees *)

\* The parent a request has found, if it is not the root, is or was a folder of
\* the cabinet of the request.
Found(w) ==
    work[w].pc \in {"folder_name", "folder_insert"} /\ work[w].folder # None =>
        /\ work[w].folder \in Folders
        /\ folders[work[w].folder].state # "unborn"
        /\ folders[work[w].folder].cabinet = work[w].cabinet

ApartInv == WellTyped /\ TreesApart /\ \A w \in Workers : Found(w)

\* No folder is new, and none changes its place.
NoneNew ==
    \A f \in Folders :
        /\ folders'[f].cabinet = folders[f].cabinet /\ folders'[f].parent = folders[f].parent
        /\ folders'[f].state = "live" => folders[f].state = "live"
        /\ folders[f].state # "unborn" => folders'[f].state # "unborn"

\* Only one request moves, and it is under way before or after.
LEMMA OneMoves ==
    ASSUME WellTyped, NEW w \in Workers, HandlerStep(w)
    PROVE  /\ \A v \in Workers \ {w} : work'[v] = work[v]
           /\ ~Idle(w) \/ ~Idle(w)'
  <1>0. work \in [Workers -> Request]
    BY DEF WellTyped
  <1>1. CASE GoOn(w)
    BY <1>0, <1>1 DEF GoOn, DropEntries, DropCabinet, FindParent, FindName, InsertFolder, Rename,
       Collect, DropFolder, InsertEntry, Move, DropEntry, Finish, GoesTo, Idle
  <1>2. CASE ~GoOn(w)
    <2>1. Started(w)
      BY <1>2, StartStarts DEF HandlerStep
    <2> QED BY <1>0, <2>1 DEF Started, Begins, Idle
  <1> QED BY <1>1, <1>2

LEMMA OnlyInsertsAreNew ==
    ASSUME WellTyped, NEW w \in Workers, HandlerStep(w), ~InsertFolder(w)
    PROVE  NoneNew
  <1>0. folders \in [Folders -> Folder] /\ work \in [Workers -> Request]
    BY DEF WellTyped
  <1>1. CASE UNCHANGED folders
    BY <1>1 DEF NoneNew
  <1>2. CASE Rename(w)
    BY <1>0, <1>2 DEF Rename, NoneNew, Folder
  <1>3. CASE DropFolder(w)
    BY <1>0, <1>3 DEF DropFolder, NoneNew, Folder
  <1>4. CASE GoOn(w)
    BY <1>1, <1>2, <1>3, <1>4 DEF GoOn, DropEntries, DropCabinet, FindParent, FindName, Collect,
       InsertEntry, Move, DropEntry
  <1>5. CASE ~GoOn(w)
    BY <1>1, <1>5, StartStarts DEF HandlerStep, Started
  <1> QED BY <1>4, <1>5

\* A step that makes no folder keeps the trees apart, and what requests found.
LEMMA NoneNewKeeps ==
    ASSUME ApartInv, WellTyped', NoneNew
    PROVE  /\ TreesApart'
           /\ \A v \in Workers : work'[v] = work[v] => Found(v)'
  <1>0. /\ folders \in [Folders -> Folder] /\ folders' \in [Folders -> Folder]
        /\ None \notin Folders
    BY VaultAssumption DEF ApartInv, WellTyped
  <1>1. TreesApart'
    <2> SUFFICES ASSUME NEW f \in Alive(folders'), folders'[f].parent # None
                 PROVE  /\ folders'[folders'[f].parent].state # "unborn"
                        /\ folders'[folders'[f].parent].cabinet = folders'[f].cabinet
      BY DEF TreesApart
    <2> DEFINE p == folders[f].parent
    <2>1. f \in Folders /\ folders[f].state = "live" /\ folders'[f].parent = p
          /\ folders'[f].cabinet = folders[f].cabinet
      BY <1>0 DEF NoneNew, Alive
    <2>2. p \in Folders
      BY <1>0, <2>1 DEF Folder
    <2>3. folders[p].state # "unborn" /\ folders[p].cabinet = folders[f].cabinet
      BY <1>0, <2>1 DEF ApartInv, TreesApart, Alive
    <2> HIDE DEF p
    <2> QED BY <2>1, <2>2, <2>3 DEF NoneNew
  <1>2. \A v \in Workers : work'[v] = work[v] => Found(v)'
    BY DEF ApartInv, Found, NoneNew
  <1> QED BY <1>1, <1>2

\* The new folder f has the place its request found for it.
LEMMA InsertFolderKeeps ==
    ASSUME ApartInv, WellTyped', NEW w \in Workers, InsertFolder(w)
    PROVE  /\ TreesApart'
           /\ \A v \in Workers : work'[v] = work[v] => Found(v)'
  <1> DEFINE new == [state |-> "live", cabinet |-> work[w].cabinet,
                     parent |-> work[w].folder, name |-> work[w].name]
  <1>0. /\ folders \in [Folders -> Folder] /\ work \in [Workers -> Request]
        /\ None \notin Folders
    BY VaultAssumption DEF ApartInv, WellTyped
  <1>1. PICK f \in Folders : folders[f].state = "unborn" /\ folders' = [folders EXCEPT ![f] = new]
    BY DEF InsertFolder
  <1>2. \A g \in Folders : folders'[g] = IF g = f THEN new ELSE folders[g]
    BY <1>0, <1>1
  <1>3. new.state = "live" /\ new.cabinet = work[w].cabinet /\ new.parent = work[w].folder
    OBVIOUS
  <1>4. work[w].folder # None =>
          /\ work[w].folder \in Folders \ {f}
          /\ folders[work[w].folder].cabinet = work[w].cabinet
          /\ folders[work[w].folder].state # "unborn"
    BY <1>1 DEF ApartInv, Found, InsertFolder
  <1> HIDE DEF new
  <1>5. TreesApart'
    <2> SUFFICES ASSUME NEW g \in Alive(folders'), folders'[g].parent # None
                 PROVE  /\ folders'[folders'[g].parent].state # "unborn"
                        /\ folders'[folders'[g].parent].cabinet = folders'[g].cabinet
      BY DEF TreesApart
    <2>1. CASE g = f
      BY <1>2, <1>3, <1>4, <2>1
    <2>2. CASE g # f
      <3> DEFINE p == folders[g].parent
      <3>1. g \in Folders /\ folders'[g] = folders[g] /\ folders[g].state = "live"
        BY <1>0, <1>1, <1>2, <2>2 DEF Alive
      <3>2. p \in Folders
        BY <1>0, <3>1 DEF Folder
      <3>3. folders[p].state # "unborn" /\ folders[p].cabinet = folders[g].cabinet
        BY <1>0, <3>1 DEF ApartInv, TreesApart, Alive
      <3>4. folders'[p] = folders[p]
        BY <1>1, <1>2, <3>2, <3>3
      <3> QED BY <3>1, <3>3, <3>4
    <2> QED BY <2>1, <2>2
  <1>6. ASSUME NEW v \in Workers, work'[v] = work[v]
        PROVE  Found(v)'
    BY <1>1, <1>2, <1>6 DEF ApartInv, Found
  <1> QED BY <1>5, <1>6

LEMMA NextApart == ApartInv /\ [VaultNext]_vaultVars => ApartInv'
  <1> SUFFICES ASSUME ApartInv, [VaultNext]_vaultVars PROVE ApartInv'
    OBVIOUS
  <1>0. WellTyped /\ WellTyped' /\ work \in [Workers -> Request] /\ folders \in [Folders -> Folder]
    BY NextTyped DEF ApartInv, WellTyped
  <1>1. ASSUME NEW w \in Workers, HandlerStep(w)
        PROVE  ApartInv'
    <2>1. TreesApart' /\ \A v \in Workers : work'[v] = work[v] => Found(v)'
      BY <1>0, <1>1, OnlyInsertsAreNew, NoneNewKeeps, InsertFolderKeeps
    <2>2. Found(w)'
      <3>1. CASE FindParent(w)
        BY <1>0, <3>1, RestIsRequest DEF FindParent, Found, GoesTo, Finish, InCabinet, Alive, Request
      <3>2. CASE FindName(w)
        <4>1. Found(w) /\ UNCHANGED folders
          BY <3>2 DEF ApartInv, FindName
        <4> QED BY <1>0, <3>2, <4>1, RestIsRequest DEF FindName, Found, GoesTo, Finish, Request
      <3>3. CASE GoOn(w) /\ ~FindParent(w) /\ ~FindName(w)
        BY <1>0, <3>3, RestIsRequest DEF GoOn, DropEntries, DropCabinet, InsertFolder, Rename,
           Collect, DropFolder, InsertEntry, Move, DropEntry, Found, GoesTo, Finish, Request
      <3>4. CASE ~GoOn(w)
        <4>1. Started(w)
          BY <1>0, <1>1, <3>4, StartStarts DEF HandlerStep
        <4> QED BY <1>0, <4>1 DEF Started, Begins, Found
      <3> QED BY <3>1, <3>2, <3>3, <3>4
    <2> QED BY <1>0, <1>1, <2>1, <2>2, OneMoves DEF ApartInv
  <1>2. ASSUME NEW w \in Workers, Fail(w)
        PROVE  ApartInv'
    <2>1. NoneNew
      BY <1>2 DEF Fail, NoneNew
    <2>2. \A v \in Workers \ {w} : work'[v] = work[v]
      BY <1>0, <1>2 DEF Fail, Finish
    <2>3. Found(w)'
      BY <1>0, <1>2, RestIsRequest DEF Fail, Finish, Found
    <2> QED BY <1>0, <2>1, <2>2, <2>3, NoneNewKeeps DEF ApartInv
  <1>3. CASE UNCHANGED <<folders, work>>
    <2>1. NoneNew
      BY <1>3 DEF NoneNew
    <2> QED BY <1>0, <1>3, <2>1, NoneNewKeeps DEF ApartInv
  <1>4. ASSUME NEW u \in Users, AtOnce(u)
        PROVE  UNCHANGED <<folders, work>>
    BY <1>0, <1>4, CabinetTyped
  <1>5. CASE UNCHANGED vaultVars
    BY <1>3, <1>5 DEF vaultVars
  <1> QED BY <1>1, <1>2, <1>3, <1>4, <1>5 DEF VaultNext

\* A folder hangs under a folder of its own cabinet (folder_service.py), however
\* creations, renamings and deletions interleave and stop.
THEOREM VaultTreesApart == VaultSpec => []TreesApart
<1>1. VaultInit => ApartInv
  <2> SUFFICES ASSUME VaultInit PROVE ApartInv
    OBVIOUS
  <2>1. Alive(folders) = {} /\ \A w \in Workers : work[w].pc = "idle"
    BY RestIsRequest DEF VaultInit, Alive, NoFolder
  <2> QED BY <2>1, InitTyped DEF ApartInv, TreesApart, Found
<1>2. ApartInv => TreesApart
  BY DEF ApartInv
<1> QED BY <1>1, <1>2, NextApart, PTL DEF VaultSpec


-----------------------------------------------------------------------------
(* One request at a time *)

OneBusy == \A v, w \in Workers : ~Idle(v) /\ ~Idle(w) => v = w

\* Nobody but w has a request under way.
Alone(w) == \A v \in Workers \ {w} : Idle(v)

LEMMA AtMostOne ==
    ASSUME NEW S, IsFiniteSet(S), Cardinality(S) <= 1, NEW x \in S, NEW y \in S
    PROVE  x = y
  <1> SUFFICES ASSUME x # y PROVE FALSE
    OBVIOUS
  <1>1. IsFiniteSet({x}) /\ Cardinality({x}) = 1
    BY FS_Singleton
  <1>2. Cardinality({x} \union {y}) = 2
    BY <1>1, FS_AddElement
  <1>3. Cardinality({x} \union {y}) <= Cardinality(S) /\ Cardinality(S) \in Nat
    BY FS_Subset, FS_CardinalityType
  <1> QED BY <1>2, <1>3

\* While it is calm, the request that moves is the only one.
LEMMA MovesAlone ==
    ASSUME WellTyped, OneBusy, NEW w \in Workers, HandlerStep(w), Cardinality(Busy') <= 1
    PROVE  Alone(w) /\ Alone(w)' /\ OneBusy'
  <1>1. \A v \in Workers \ {w} : Idle(v)' <=> Idle(v)
    BY OneMoves DEF Idle
  <1>2. CASE ~Idle(w)
    BY <1>1, <1>2 DEF OneBusy, Alone
  <1>3. CASE ~Idle(w)'
    <2>1. Busy' = {v \in Workers : ~Idle(v)'}
      BY DEF Busy
    <2>2. IsFiniteSet(Busy')
      BY <2>1, FS_Subset, VaultAssumption
    <2>3. \A v \in Workers : ~Idle(v)' => v = w
      <3> DEFINE S == Busy'
      <3>1. w \in S /\ \A v \in Workers : ~Idle(v)' => v \in S
        BY <1>3, <2>1
      <3>2. IsFiniteSet(S) /\ Cardinality(S) <= 1
        BY <2>2
      <3> HIDE DEF S
      <3> QED BY <3>1, <3>2, AtMostOne
    <2> QED BY <1>1, <2>3 DEF OneBusy, Alone
  <1> QED BY <1>2, <1>3, OneMoves

-----------------------------------------------------------------------------
(* Folders, while it is calm *)

\* The parent found is still there; what is to be deleted has everything below.
KnowsFolders(w) ==
    /\ work[w].pc \in {"folder_name", "folder_insert"} =>
         work[w].folder \in Alive(folders) \union {None}
    /\ work[w].pc = "drop_folders" =>
         \A f \in Alive(folders) : folders[f].parent \in work[w].todo => f \in work[w].todo

\* A folder that hangs under a deleted one is about to be deleted, by w.
Hangs(f, w) ==
    \/ folders[f].parent \in Alive(folders) \union {None}
    \/ work[w].pc = "drop_folders" /\ f \in work[w].todo

\* What has to hold of the only request under way, and of none.
FoldersKept(w) == KnowsFolders(w) /\ \A f \in Alive(folders) : Hangs(f, w)

FolderInv ==
    /\ calm => OneBusy /\ \A w \in Workers : Alone(w) => FoldersKept(w)
    /\ NoLooseFolder

LEMMA CollectsAll ==
    ASSUME ApartInv, NEW f \in Alive(folders), NEW g \in Alive(folders),
           folders[g].parent \in Below(f)
    PROVE  g \in Below(f)
  <1> DEFINE tree == InCabinet(folders[f].cabinet)
  <1>0. folders \in [Folders -> Folder] /\ None \notin Folders
    BY VaultAssumption DEF ApartInv, WellTyped
  <1>1. folders[g].parent \in tree
    BY DEF Below
  <1>2. g \in tree
    <2>1. g \in Folders /\ folders[g].parent # None
      BY <1>0, <1>1 DEF InCabinet, Alive
    <2>2. folders[folders[g].parent].cabinet = folders[g].cabinet
      BY <2>1 DEF ApartInv, TreesApart
    <2> QED BY <1>1, <2>2 DEF InCabinet
  <1>3. ASSUME NEW S \in SUBSET tree, f \in S,
               \A h \in tree : folders[h].parent \in S => h \in S
        PROVE  g \in S
    <2>1. folders[g].parent \in S
      BY <1>3 DEF Below
    <2> QED BY <1>2, <1>3, <2>1
  <1> QED BY <1>2, <1>3 DEF Below

LEMMA FolderStepKeeps ==
    ASSUME ApartInv, WellTyped', NEW w \in Workers, HandlerStep(w), FoldersKept(w)
    PROVE  FoldersKept(w)'
  <1>0. /\ folders \in [Folders -> Folder] /\ work \in [Workers -> Request]
        /\ folders' \in [Folders -> Folder] /\ None \notin Folders /\ WellTyped
    BY VaultAssumption DEF ApartInv, WellTyped
  <1>1. CASE InsertFolder(w)
    <2> DEFINE new == [state |-> "live", cabinet |-> work[w].cabinet,
                       parent |-> work[w].folder, name |-> work[w].name]
    <2>1. PICK f \in Folders : folders[f].state = "unborn" /\ folders' = [folders EXCEPT ![f] = new]
      BY <1>1 DEF InsertFolder
    <2>2. \A g \in Folders : folders'[g] = IF g = f THEN new ELSE folders[g]
      BY <1>0, <2>1
    <2>3. new.state = "live" /\ new.parent = work[w].folder
      OBVIOUS
    <2> HIDE DEF new
    <2>4. Alive(folders') = Alive(folders) \union {f}
      BY <1>0, <2>1, <2>2, <2>3 DEF Alive
    <2>5. work'[w].pc = "idle" /\ work[w].pc = "folder_insert"
      BY <1>0, <1>1, RestIsRequest DEF InsertFolder, Finish
    <2>6. \A g \in Alive(folders) : folders'[g] = folders[g]
      BY <1>0, <2>1, <2>2 DEF Alive
    <2> QED BY <2>2, <2>3, <2>4, <2>5, <2>6 DEF FoldersKept, KnowsFolders, Hangs
  <1>2. CASE DropFolder(w)
    <2>1. PICK f \in work[w].todo :
            /\ folders[f].parent \notin work[w].todo
            /\ folders' = [folders EXCEPT ![f].state = "deleted"]
            /\ IF work[w].todo = {f} THEN Finish(w)
               ELSE work' = [work EXCEPT ![w].todo = @ \ {f}]
      BY <1>2 DEF DropFolder
    <2>2. f \in Folders /\ work[w].pc = "drop_folders"
      BY <1>0, <1>2 DEF DropFolder, Request
    <2>3. /\ Alive(folders') = Alive(folders) \ {f}
          /\ \A g \in Folders : folders'[g].parent = folders[g].parent
      BY <1>0, <2>1, <2>2 DEF Alive, Folder
    <2>4. \/ work[w].todo = {f} /\ work'[w].pc = "idle"
          \/ work'[w].pc = "drop_folders" /\ work'[w].todo = work[w].todo \ {f}
      BY <1>0, <2>1, <2>2, RestIsRequest DEF Finish, Request
    <2>5. \A g \in Alive(folders) : g \in Folders /\ (folders[g].parent = f => g \in work[w].todo)
      BY <1>0, <2>1, <2>2 DEF FoldersKept, KnowsFolders, Alive
    <2>6. KnowsFolders(w)'
      BY <2>2, <2>3, <2>4, <2>5 DEF FoldersKept, KnowsFolders
    <2>7. ASSUME NEW g \in Alive(folders')
          PROVE  Hangs(g, w)'
      <3>1. g \in Alive(folders) /\ g # f /\ folders'[g].parent = folders[g].parent
        BY <2>3, <2>5, <2>7
      <3>2. g \in work[w].todo \/ folders[g].parent \in (Alive(folders) \ {f}) \union {None}
        BY <2>2, <2>5, <3>1 DEF FoldersKept, Hangs
      <3> QED BY <2>3, <2>4, <3>1, <3>2 DEF Hangs
    <2> QED BY <2>6, <2>7 DEF FoldersKept
  <1>3. CASE Collect(w)
    <2> DEFINE f == work[w].folder
               all == IF f \in Alive(folders) THEN Below(f) ELSE {f}
    <2>1. UNCHANGED folders /\ work[w].pc = "collect" /\ f \in Folders
      BY <1>0, <1>3 DEF Collect, Request
    <2>2. work'[w].pc = "drop_folders" /\ work'[w].todo = all
      BY <1>0, <1>3 DEF Collect, Request
    <2>3. \A g \in Alive(folders) : folders[g].parent \in Alive(folders) \union {None}
      BY <2>1 DEF FoldersKept, Hangs
    <2>4. \A g \in Alive(folders) : folders[g].parent \in all => g \in all
      BY <1>0, <2>1, <2>3, CollectsAll
    <2> HIDE DEF all
    <2> QED BY <2>1, <2>2, <2>3, <2>4 DEF FoldersKept, KnowsFolders, Hangs
  <1>4. CASE FindParent(w) \/ FindName(w)
    <2>1. UNCHANGED folders /\ work[w].pc \in {"folder_parent", "folder_name"}
      BY <1>4 DEF FindParent, FindName
    <2>2. \/ work'[w].pc = "idle"
          \/ /\ work'[w].pc \in {"folder_name", "folder_insert"}
             /\ work'[w].folder = work[w].folder
             /\ work[w].folder \in Alive(folders) \union {None}
      BY <1>0, <1>4, RestIsRequest
         DEF FindParent, FindName, Finish, GoesTo, Request, InCabinet, FoldersKept, KnowsFolders
    <2> QED BY <2>1, <2>2 DEF FoldersKept, KnowsFolders, Hangs
  <1>5. CASE Rename(w)
    <2>1. work[w].pc = "rename" /\ work'[w].pc = "idle"
      BY <1>0, <1>5, RestIsRequest DEF Rename, Finish
    <2>2. /\ Alive(folders') = Alive(folders)
          /\ \A g \in Alive(folders) : folders'[g].parent = folders[g].parent
      BY <1>0, <1>5 DEF Rename, Alive, Folder
    <2> QED BY <2>1, <2>2 DEF FoldersKept, KnowsFolders, Hangs
  <1>6. CASE DropEntries(w) \/ DropCabinet(w) \/ InsertEntry(w) \/ Move(w) \/ DropEntry(w)
    <2>1. UNCHANGED folders /\ work[w].pc # "drop_folders"
          /\ work'[w].pc \in {"idle", "drop_cabinet"}
      BY <1>0, <1>6, RestIsRequest DEF DropEntries, DropCabinet, InsertEntry, Move, DropEntry, Finish,
         GoesTo, Request
    <2> QED BY <2>1 DEF FoldersKept, KnowsFolders, Hangs
  <1>7. CASE Started(w)
    BY <1>0, <1>7 DEF Started, Begins, Idle, FoldersKept, KnowsFolders, Hangs
  <1> QED BY <1>0, <1>1, <1>2, <1>3, <1>4, <1>5, <1>6, <1>7, StartStarts DEF HandlerStep, GoOn

LEMMA NextFolders == ApartInv /\ FolderInv /\ [VaultNext]_vaultVars => FolderInv'
  <1> SUFFICES ASSUME ApartInv, FolderInv, [VaultNext]_vaultVars, calm' PROVE FolderInv'
    BY DEF FolderInv, NoLooseFolder
  <1>0. WellTyped /\ WellTyped'
    BY NextTyped DEF ApartInv
  <1>1. ASSUME NEW w \in Workers, HandlerStep(w),
               calm' = (calm /\ Cardinality(Busy') <= 1)
        PROVE  FolderInv'
    <2>1. calm /\ Cardinality(Busy') <= 1
      BY <1>1, Zenon
    <2>2. Alone(w) /\ Alone(w)' /\ OneBusy'
      BY <1>0, <1>1, <2>1, MovesAlone DEF FolderInv
    <2>3. FoldersKept(w)'
      BY <1>0, <1>1, <2>1, <2>2, FolderStepKeeps DEF FolderInv
    <2>4. ASSUME Idle(w)'
          PROVE  \A f \in Alive(folders') : folders'[f].parent \in Alive(folders') \union {None}
      BY <2>3, <2>4 DEF FoldersKept, Hangs, Idle
    <2>5. ASSUME NEW v \in Workers, Alone(v)'
          PROVE  FoldersKept(v)'
      <3>1. CASE v = w
        BY <2>3, <3>1
      <3>2. CASE v # w
        <4>1. Idle(v)' /\ Idle(w)'
          BY <2>2, <2>5, <3>2 DEF Alone
        <4> QED BY <2>4, <4>1 DEF FoldersKept, KnowsFolders, Hangs, Idle
      <3> QED BY <3>1, <3>2
    <2>6. NoLooseFolder'
      BY <2>4 DEF NoLooseFolder, Busy
    <2> QED BY <2>2, <2>5, <2>6 DEF FolderInv
  <1>2. CASE UNCHANGED <<folders, work, calm>>
    BY <1>2 DEF FolderInv, NoLooseFolder, OneBusy, Alone, Busy, Idle, FoldersKept, KnowsFolders, Hangs
  <1>3. ASSUME NEW u \in Users, AtOnce(u), UNCHANGED calm
        PROVE  UNCHANGED <<folders, work, calm>>
    BY <1>0, <1>3, CabinetTyped
  <1>4. CASE UNCHANGED vaultVars
    BY <1>2, <1>4 DEF vaultVars
  <1> QED BY <1>1, <1>2, <1>3, <1>4 DEF VaultNext

LEMMA InitFolders == VaultInit => ApartInv /\ FolderInv
  <1> SUFFICES ASSUME VaultInit PROVE ApartInv /\ FolderInv
    OBVIOUS
  <1>1. Alive(folders) = {} /\ \A w \in Workers : work[w].pc = "idle"
    BY RestIsRequest DEF VaultInit, Alive, NoFolder
  <1> QED BY <1>1, InitTyped DEF ApartInv, TreesApart, Found, FolderInv, NoLooseFolder, OneBusy, Idle,
          FoldersKept, KnowsFolders

\* Unless requests overlap or stop half-way, deleting a folder
\* (folder_service.py) leaves none that hangs under a deleted one.
THEOREM VaultNoLooseFolder == VaultSpec => []NoLooseFolder
<1>1. FolderInv => NoLooseFolder
  BY DEF FolderInv
<1> QED BY <1>1, InitFolders, NextApart, NextFolders, PTL DEF VaultSpec

-----------------------------------------------------------------------------
(* Entries, while it is calm *)

\* The cabinet of an entry to come is there; one to be deleted is empty.
KnowsCabinet(w) ==
    /\ work[w].pc = "entry_insert" => work[w].cabinet \in Alive(cabinets)
    /\ work[w].pc = "drop_cabinet" =>
         \A e \in Alive(entries) : entries[e].cabinet # work[w].cabinet

Housed == \A e \in Alive(entries) : entries[e].cabinet \in Alive(cabinets)

EntryInv ==
    calm => /\ OneBusy
            /\ \A w \in Workers : Alone(w) => KnowsCabinet(w)
            /\ Housed

LEMMA EntryStepKeeps ==
    ASSUME WellTyped, NEW w \in Workers, HandlerStep(w), KnowsCabinet(w), Housed
    PROVE  KnowsCabinet(w)' /\ Housed'
  <1>0. /\ cabinets \in [Cabinets -> Cabinet] /\ entries \in [Entries -> Entry]
        /\ work \in [Workers -> Request]
    BY DEF WellTyped
  <1>1. CASE DropEntries(w)
    <2>1. /\ work'[w].pc = "drop_cabinet" /\ work'[w].cabinet = work[w].cabinet
          /\ UNCHANGED cabinets
      BY <1>0, <1>1 DEF DropEntries, GoesTo, Request
    <2>2. \A e \in Alive(entries') : /\ e \in Alive(entries) /\ entries'[e] = entries[e]
                                    /\ entries[e].cabinet # work[w].cabinet
      <3>1. [NoEntry EXCEPT !.state = "deleted"].state # "live"
        BY DEF NoEntry
      <3>2. DOMAIN entries = Entries /\ DOMAIN entries' = Entries
        BY <1>0, <1>1 DEF DropEntries
      <3> DEFINE gone == [NoEntry EXCEPT !.state = "deleted"]
      <3>3. \A e \in Entries : entries'[e] = IF e \in Alive(entries) /\ entries[e].cabinet = work[w].cabinet
                                             THEN gone ELSE entries[e]
        BY <1>1 DEF DropEntries
      <3> HIDE DEF gone
      <3> QED BY <3>1, <3>2, <3>3 DEF Alive, gone
    <2> QED BY <2>1, <2>2 DEF KnowsCabinet, Housed
  <1>2. CASE DropCabinet(w)
    <2>1. work'[w].pc = "idle" /\ UNCHANGED entries /\ work[w].pc = "drop_cabinet"
      BY <1>0, <1>2, RestIsRequest DEF DropCabinet, Finish
    <2>2. Alive(cabinets) \ {work[w].cabinet} \subseteq Alive(cabinets')
      BY <1>0, <1>2 DEF DropCabinet, Alive
    <2> QED BY <2>1, <2>2 DEF KnowsCabinet, Housed
  <1>3. CASE InsertEntry(w)
    <2> DEFINE new == [state |-> "live", cabinet |-> work[w].cabinet, folder |-> work[w].folder]
    <2>1. PICK e \in Entries : entries[e].state = "unborn" /\ entries' = [entries EXCEPT ![e] = new]
      BY <1>3 DEF InsertEntry
    <2>2. new.cabinet = work[w].cabinet
      OBVIOUS
    <2> HIDE DEF new
    <2>3. \A d \in Alive(entries') : entries'[d] = new \/ (d \in Alive(entries) /\ entries'[d] = entries[d])
      <3>1. DOMAIN entries' = Entries /\ DOMAIN entries = Entries
        BY <1>0, <2>1
      <3>2. \A d \in Entries : entries'[d] = IF d = e THEN new ELSE entries[d]
        BY <1>0, <2>1
      <3> QED BY <3>1, <3>2 DEF Alive
    <2>4. /\ work'[w].pc = "idle" /\ UNCHANGED cabinets /\ work[w].pc = "entry_insert"
      BY <1>0, <1>3, RestIsRequest DEF InsertEntry, Finish
    <2> QED BY <2>2, <2>3, <2>4 DEF KnowsCabinet, Housed
  <1>4. CASE Move(w) \/ DropEntry(w)
    <2>1. work'[w].pc = "idle" /\ UNCHANGED cabinets
      BY <1>0, <1>4, RestIsRequest DEF Move, DropEntry, Finish
    <2>2. \A e \in Alive(entries') : e \in Alive(entries) /\ entries'[e].cabinet = entries[e].cabinet
      <3>1. CASE Move(w)
        BY <1>0, <3>1 DEF Move, Alive, Entry
      <3>2. CASE DropEntry(w)
        <4>1. [NoEntry EXCEPT !.state = "deleted"].state # "live"
          BY DEF NoEntry
        <4> DEFINE gone == [NoEntry EXCEPT !.state = "deleted"]
        <4>2. entries' = [entries EXCEPT ![work[w].entry] = gone]
          BY <3>2 DEF DropEntry
        <4> HIDE DEF gone
        <4> QED BY <1>0, <4>1, <4>2 DEF Alive, gone
      <3> QED BY <1>4, <3>1, <3>2
    <2> QED BY <2>1, <2>2 DEF KnowsCabinet, Housed
  <1>5. CASE FindParent(w) \/ FindName(w) \/ InsertFolder(w) \/ Rename(w) \/ Collect(w) \/ DropFolder(w)
    <2>1. UNCHANGED <<cabinets, entries>> /\ work'[w].pc \notin {"entry_insert", "drop_cabinet"}
      BY <1>0, <1>5, RestIsRequest DEF FindParent, FindName, InsertFolder, Rename, Collect, DropFolder,
         Finish, GoesTo, Request
    <2> QED BY <2>1 DEF KnowsCabinet, Housed
  <1>6. CASE Started(w)
    BY <1>0, <1>6 DEF Started, Begins, KnowsCabinet, Housed
  <1> QED BY <1>1, <1>2, <1>3, <1>4, <1>5, <1>6, StartStarts DEF HandlerStep, GoOn

LEMMA NextEntries == WellTyped /\ EntryInv /\ [VaultNext]_vaultVars => EntryInv'
  <1> SUFFICES ASSUME WellTyped, EntryInv, [VaultNext]_vaultVars, calm' PROVE EntryInv'
    BY DEF EntryInv
  <1>1. ASSUME NEW w \in Workers, HandlerStep(w),
               calm' = (calm /\ Cardinality(Busy') <= 1)
        PROVE  EntryInv'
    <2>1. calm /\ Cardinality(Busy') <= 1
      BY <1>1, Zenon
    <2>2. Alone(w) /\ Alone(w)' /\ OneBusy'
      BY <1>1, <2>1, MovesAlone DEF EntryInv
    <2>3. KnowsCabinet(w)' /\ Housed'
      BY <1>1, <2>1, <2>2, EntryStepKeeps DEF EntryInv
    <2>4. ASSUME NEW v \in Workers, Alone(v)'
          PROVE  KnowsCabinet(v)'
      <3>1. CASE v = w
        BY <2>3, <3>1
      <3>2. CASE v # w
        BY <2>2, <3>2 DEF Alone, Idle, KnowsCabinet
      <3> QED BY <3>1, <3>2
    <2> QED BY <2>2, <2>3, <2>4 DEF EntryInv
  <1>2. ASSUME NEW u \in Users, AtOnce(u), UNCHANGED calm
        PROVE  EntryInv'
    <2>1. UNCHANGED <<entries, work>>
      BY <1>2, CabinetTyped
    <2>2. Alive(cabinets) \subseteq Alive(cabinets')
      <3>1. cabinets \in [Cabinets -> Cabinet]
        BY DEF WellTyped
      <3>2. CASE CreateCabinet(u)
        BY <3>1, <3>2 DEF CreateCabinet, Alive
      <3>3. ASSUME NEW c \in Cabinets, SetMember(u, c)
            PROVE  Alive(cabinets) \subseteq Alive(cabinets')
        BY <3>1, <3>3 DEF SetMember, Alive, Cabinet
      <3> QED BY <1>2, <3>2, <3>3 DEF AtOnce
    <2> QED BY <1>2, <2>1, <2>2 DEF EntryInv, OneBusy, Alone, Idle, KnowsCabinet, Housed
  <1>3. CASE UNCHANGED vaultVars
    BY <1>3 DEF vaultVars, EntryInv, OneBusy, Alone, Idle, KnowsCabinet, Housed
  <1> QED BY <1>1, <1>2, <1>3 DEF VaultNext

\* Unless requests overlap or stop half-way, a cabinet that is deleted
\* (cabinet_service.py) leaves no entry behind.
THEOREM VaultEntriesHaveCabinet == VaultSpec => []EntriesHaveCabinet
<1>1. VaultInit => EntryInv
  <2> SUFFICES ASSUME VaultInit PROVE EntryInv
    OBVIOUS
  <2>1. Alive(entries) = {} /\ \A w \in Workers : work[w].pc = "idle"
    BY RestIsRequest DEF VaultInit, Alive, NoEntry
  <2> QED BY <2>1 DEF EntryInv, OneBusy, Idle, KnowsCabinet, Housed
<1>2. EntryInv => EntriesHaveCabinet
  BY DEF EntryInv, Housed, EntriesHaveCabinet
<1> QED BY <1>1, <1>2, InitTyped, NextTyped, NextEntries, PTL DEF VaultSpec
===============================================================================
