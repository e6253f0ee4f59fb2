------------------------------ MODULE FileStore ------------------------------
(***************************************************************************)
(* The shared files: a collection of documents and a directory tree that   *)
(* no transaction ties together, and the programs that write both:         *)
(*                                                                         *)
(*   - an upload, which stages the plaintext, creates the document and     *)
(*     leaves the rest to a background task (scan, encrypt, record);       *)
(*   - downloads, by users and through share links, and deletions;         *)
(*   - the nightly clean-up, a process of its own.                         *)
(*                                                                         *)
(* Every step is what one actor does between two awaits.  A fault is the   *)
(* end of the API process, or an error of the database or the disk in one  *)
(* actor; whatever was written before it stays.                            *)
(***************************************************************************)
EXTENDS Naturals

CONSTANTS
    Files,      \* one upload each: an id is never used twice
    Requests,   \* download and delete requests, one life each
    NoFile,
    MaxFaults   \* bound: faults of a behaviour

ASSUME FileStoreAssumption ==
    /\ NoFile \notin Files
    /\ MaxFaults \in Nat

VARIABLES
    recs,     \* file -> document
    staging,  \* the files whose plaintext is in the staging directory
    blob,     \* file -> what is at its final path
    malware,  \* the files the scanner would recognise
    task,     \* file -> where its upload and background task are
    req,      \* request -> where it is
    job,      \* the nightly clean-up
    faults,   \* how many faults there have been
    blind     \* history variable, no code counterpart: files deleted by
              \* somebody who had read the document before it had a path

vars == <<recs, staging, blob, malware, task, req, job, faults, blind>>
stores == <<recs, staging, blob, malware, blind>>

-----------------------------------------------------------------------------
(* Documents and actors *)

ScanStatus == {"pending", "clean", "infected", "scan_failed"}

NoDocument == [status |-> "unborn", once |-> FALSE, expired |-> FALSE]
IdleRequest == [pc |-> "idle", kind |-> "owner", file |-> NoFile, known |-> FALSE]
IdleJob == [pc |-> "idle", todo |-> {}, known |-> {}, cur |-> NoFile]

Live(f) == recs[f].status \in ScanStatus

\* storage_path is written together with the status clean: whoever reads the
\* document knows the path exactly if it says clean.
PathKnown(f) == recs[f].status = "clean"

Init ==
    /\ recs = [f \in Files |-> NoDocument]
    /\ staging = {}
    /\ blob = [f \in Files |-> "none"]
    /\ malware = {}
    /\ task = [f \in Files |-> "none"]
    /\ req = [c \in Requests |-> IdleRequest]
    /\ job = IdleJob
    /\ faults = 0
    /\ blind = {}

\* delete_one; the deleter had, or had not, read a path.
Remove(f, known) ==
    /\ recs' = [recs EXCEPT ![f].status = IF Live(f) THEN "deleted" ELSE @]
    /\ blind' = IF known THEN blind ELSE blind \union {f}

-----------------------------------------------------------------------------
(* Upload and background task *)

\* upload: the bytes are written to the staging directory as they arrive.
Stage(f) ==
    /\ task[f] = "none"
    /\ task' = [task EXCEPT ![f] = "receive"]
    /\ staging' = staging \union {f}
    /\ \/ malware' = malware
       \/ malware' = malware \union {f}
    /\ UNCHANGED <<recs, blob, req, job, faults, blind>>

\* More bytes than MAX_FILE_SIZE_BYTES: the staged file is removed, 413.
TooLarge(f) ==
    /\ task[f] = "receive"
    /\ task' = [task EXCEPT ![f] = "done"]
    /\ staging' = staging \ {f}
    /\ UNCHANGED <<recs, blob, malware, req, job, faults, blind>>

\* The document is created with status pending and without a path; the
\* response goes out and the background task is due.
CreateRecord(f, once) ==
    /\ task[f] = "receive"
    /\ recs' = [recs EXCEPT ![f] =
                  [status |-> "pending", once |-> once, expired |-> FALSE]]
    /\ task' = [task EXCEPT ![f] = "queued"]
    /\ UNCHANGED <<staging, blob, malware, req, job, faults, blind>>

\* What clamd may answer: it recognises what it recognises, or it fails.
Verdicts(f) == {IF f \in malware THEN "infected" ELSE "clean", "scan_failed"}

\* Broken variant: a scanner that does not answer counts as clean.
ScanFailsOpen(f) ==
    /\ task[f] = "queued"
    /\ Live(f)
    /\ \E v \in Verdicts(f) :
         \/ /\ v \in {"clean", "scan_failed"}
            /\ task' = [task EXCEPT ![f] = "encrypt"]
            /\ blob' = [blob EXCEPT ![f] = "partial"]
            /\ UNCHANGED staging
         \/ /\ v = "infected"
            /\ task' = [task EXCEPT ![f] = "infected"]
            /\ staging' = staging \ {f}
            /\ UNCHANGED blob
    /\ UNCHANGED <<recs, malware, req, job, faults, blind>>

\* Broken variant: nothing tells the task that the document is gone.
ScanLeavesDeleted(f) ==
    /\ task[f] = "queued"
    /\ \/ /\ ~Live(f)
          /\ task' = [task EXCEPT ![f] = "done"]
          /\ UNCHANGED <<staging, blob>>
       \/ /\ Live(f)
          /\ \E v \in Verdicts(f) :
               /\ task' = [task EXCEPT ![f] = IF v = "clean" THEN "encrypt" ELSE v]
               /\ blob' = [blob EXCEPT ![f] = IF v = "clean" THEN "partial" ELSE @]
               /\ staging' = IF v = "infected" THEN staging \ {f} ELSE staging
    /\ UNCHANGED <<recs, malware, req, job, faults, blind>>

\* Broken variant: the task waits for a document that is gone.
ScanWaits(f) ==
    /\ task[f] = "queued"
    /\ Live(f)
    /\ \E v \in Verdicts(f) :
         /\ task' = [task EXCEPT ![f] = IF v = "clean" THEN "encrypt" ELSE v]
         /\ blob' = [blob EXCEPT ![f] = IF v = "clean" THEN "partial" ELSE @]
         /\ staging' = IF v = "infected" THEN staging \ {f} ELSE staging
    /\ UNCHANGED <<recs, malware, req, job, faults, blind>>

\* process_scan_and_encrypt up to its second await: scan_file blocks the event
\* loop, so the document that was found is still the document afterwards.
Scan(f) ==
    /\ task[f] = "queued"
    /\ \/ /\ ~Live(f)
          /\ task' = [task EXCEPT ![f] = "done"]
          /\ staging' = staging \ {f}
          /\ UNCHANGED blob
       \/ /\ Live(f)
          /\ \E v \in Verdicts(f) :
               /\ task' = [task EXCEPT ![f] = IF v = "clean" THEN "encrypt" ELSE v]
               /\ blob' = [blob EXCEPT ![f] = IF v = "clean" THEN "partial" ELSE @]
               /\ staging' = IF v = "infected" THEN staging \ {f} ELSE staging
    /\ UNCHANGED <<recs, malware, req, job, faults, blind>>

\* The last chunk is written; the plaintext goes.
Encrypted(f) ==
    /\ task[f] = "encrypt"
    /\ task' = [task EXCEPT ![f] = "file"]
    /\ blob' = [blob EXCEPT ![f] = "full"]
    /\ staging' = staging \ {f}
    /\ UNCHANGED <<recs, malware, req, job, faults, blind>>

\* The final $set of the task, into a document that may be gone by now.
RecordVerdict(f, status, end) ==
    /\ recs' = [recs EXCEPT ![f].status = IF Live(f) THEN status ELSE @]
    /\ task' = [task EXCEPT ![f] = end]
    /\ UNCHANGED <<staging, blob, malware, req, job, faults, blind>>

FileRecord(f) == task[f] = "file" /\ RecordVerdict(f, "clean", "done")

Flag(f) ==
    \/ task[f] = "infected" /\ RecordVerdict(f, "infected", "done")
    \/ task[f] = "scan_failed" /\ RecordVerdict(f, "scan_failed", "blocked")

-----------------------------------------------------------------------------
(* Requests *)

Begin(c, f, pc, kind, known) ==
    /\ req[c].pc = "idle"
    /\ req' = [req EXCEPT ![c] = [pc |-> pc, kind |-> kind, file |-> f, known |-> known]]
    /\ UNCHANGED <<stores, task, job, faults>>

Goto(c, pc) == req' = [req EXCEPT ![c].pc = pc]

\* Broken variant: only infected files are refused.
StartDownloadUnlessInfected(c, f, kind) ==
    recs[f].status \in {"pending", "clean", "scan_failed"} /\ Begin(c, f, "open", kind, FALSE)

\* A download by a user (owner) or through a share link (link): anything but
\* clean is a 409.
StartDownload(c, f, kind) == recs[f].status = "clean" /\ Begin(c, f, "open", kind, FALSE)

\* The generator opens the file when the first chunk is asked for, after the
\* response has begun.  An open file outlives its removal.
OpenBlob(c) ==
    /\ req[c].pc = "open"
    /\ \/ blob[req[c].file] = "none" /\ Goto(c, "broken")
       \/ blob[req[c].file] # "none" /\ Goto(c, "stream")
    /\ UNCHANGED <<stores, task, job, faults>>

\* Broken variant: the route without the background task.
EndStreamKeeps(c) ==
    /\ req[c].pc = "stream"
    /\ Goto(c, "done")
    /\ UNCHANGED <<stores, task, job, faults>>

\* The response is sent.  Only GET /files/{id}/download has the background task
\* that deletes the file.
EndStream(c) ==
    /\ req[c].pc = "stream"
    /\ Goto(c, IF req[c].kind = "owner" THEN "after" ELSE "done")
    /\ UNCHANGED <<stores, task, job, faults>>

\* The client leaves during the stream; whether the background task still runs
\* is up to the server.
Disconnect(c) ==
    /\ req[c].pc = "stream"
    /\ \E pc \in {"after", "gone"} :
         (pc = "after" => req[c].kind = "owner") /\ Goto(c, pc)
    /\ UNCHANGED <<stores, task, job, faults>>

\* delete_after_download_if_set, first read.
After(c) ==
    /\ req[c].pc = "after"
    /\ LET f == req[c].file IN
         \/ /\ Live(f) /\ recs[f].once
            /\ req' = [req EXCEPT ![c].pc = "delete", ![c].known = PathKnown(f)]
         \/ /\ ~(Live(f) /\ recs[f].once)
            /\ Goto(c, "done")
    /\ UNCHANGED <<stores, task, job, faults>>

\* DELETE /files/{id}, first read.
StartDelete(c, f) == Live(f) /\ Begin(c, f, "delete", "admin", PathKnown(f))

\* Broken variant: the file is removed before the document.
DeleteRecordBlobFirst(c) ==
    /\ req[c].pc = "delete"
    /\ blob' = [blob EXCEPT ![req[c].file] = IF req[c].known THEN "none" ELSE @]
    /\ Goto(c, "unlink")
    /\ UNCHANGED <<recs, staging, malware, blind, task, job, faults>>

DeleteRecord(c) ==
    /\ req[c].pc = "delete"
    /\ Remove(req[c].file, req[c].known)
    /\ Goto(c, "unlink")
    /\ UNCHANGED <<staging, blob, malware, task, job, faults>>

\* Broken variant: the path is not passed on.
UnlinkNothing(c) ==
    /\ req[c].pc = "unlink"
    /\ Goto(c, "done")
    /\ UNCHANGED <<stores, task, job, faults>>

\* _cleanup_quiet of the path that was read first.
Unlink(c) ==
    /\ req[c].pc = "unlink"
    /\ blob' = [blob EXCEPT ![req[c].file] = IF req[c].known THEN "none" ELSE @]
    /\ Goto(c, "done")
    /\ UNCHANGED <<recs, staging, malware, blind, task, job, faults>>

-----------------------------------------------------------------------------
(* The nightly clean-up *)

\* The date the uploader chose arrives.
Expire(f) ==
    /\ Live(f)
    /\ ~recs[f].expired
    /\ recs' = [recs EXCEPT ![f].expired = TRUE]
    /\ UNCHANGED <<staging, blob, malware, task, req, job, faults, blind>>

\* Broken variant: the job only takes files that can be downloaded.
FindExpiredClean ==
    /\ job.pc = "idle"
    /\ LET found == {f \in Files : PathKnown(f) /\ recs[f].expired} IN
         job' = [pc |-> "next", todo |-> found, cur |-> NoFile, known |-> found]
    /\ UNCHANGED <<stores, task, req, faults>>

\* cleanup_expired reads the whole list of documents before its loop.
FindExpired ==
    /\ job.pc = "idle"
    /\ LET found == {f \in Files : Live(f) /\ recs[f].expired} IN
         job' = [pc |-> "next", todo |-> found, cur |-> NoFile,
                 known |-> {f \in found : PathKnown(f)}]
    /\ UNCHANGED <<stores, task, req, faults>>

\* The loop body removes the file first ...
CleanBlob(f) ==
    /\ job.pc = "next"
    /\ f \in job.todo
    /\ blob' = [blob EXCEPT ![f] = IF f \in job.known THEN "none" ELSE @]
    /\ job' = [job EXCEPT !.pc = "delete", !.cur = f]
    /\ UNCHANGED <<recs, staging, malware, blind, task, req, faults>>

\* ... and then the document.
CleanRecord ==
    /\ job.pc = "delete"
    /\ Remove(job.cur, job.cur \in job.known)
    /\ job' = [job EXCEPT !.pc = "next", !.todo = job.todo \ {job.cur}, !.cur = NoFile]
    /\ UNCHANGED <<staging, blob, malware, task, req, faults>>

EndCleanup ==
    /\ job.pc = "next"
    /\ job.todo = {}
    /\ job' = IdleJob
    /\ UNCHANGED <<stores, task, req, faults>>

-----------------------------------------------------------------------------
(* Faults *)

Running == {"receive", "queued", "encrypt", "file", "infected", "scan_failed"}

Fault ==
    /\ faults < MaxFaults
    /\ faults' = faults + 1
    /\ UNCHANGED stores

\* An error in an upload or its background task: nobody resumes it.  create is
\* outside the try block that removes the staged file.
TaskFails(f) ==
    /\ task[f] \in Running
    /\ task' = [task EXCEPT ![f] = "lost"]
    /\ Fault
    /\ UNCHANGED <<req, job>>

RequestFails(c) ==
    /\ req[c].pc \in {"open", "stream", "after", "delete"}
    /\ Goto(c, "gone")
    /\ Fault
    /\ UNCHANGED <<task, job>>

\* The clean-up raises or is killed: the next night starts over.
CleanupFails ==
    /\ job.pc # "idle"
    /\ job' = IdleJob
    /\ Fault
    /\ UNCHANGED <<task, req>>

\* The container stops, and with it the API process and the clean-up, which is
\* executed inside it.  Background tasks are not persistent.
Crash ==
    /\ task' = [f \in Files |-> IF task[f] \in Running THEN "lost" ELSE task[f]]
    /\ req' = [c \in Requests |->
                 IF req[c].pc \in {"idle", "done", "broken"} THEN req[c]
                 ELSE [req[c] EXCEPT !.pc = "gone"]]
    /\ job' = IdleJob
    /\ Fault

-----------------------------------------------------------------------------

TaskStep(f) == Scan(f) \/ Encrypted(f) \/ FileRecord(f) \/ Flag(f)

UploadStep(f) == TooLarge(f) \/ \E once \in BOOLEAN : CreateRecord(f, once)

RequestStep(c) ==
    OpenBlob(c) \/ EndStream(c) \/ After(c) \/ DeleteRecord(c) \/ Unlink(c)

StartRequest(c) ==
    \E f \in Files :
        StartDelete(c, f) \/ \E kind \in {"owner", "link"} : StartDownload(c, f, kind)

CleanupStep == FindExpired \/ CleanRecord \/ EndCleanup \/ \E f \in Files : CleanBlob(f)

Next ==
    \/ \E f \in Files : Stage(f) \/ UploadStep(f) \/ TaskStep(f) \/ Expire(f) \/ TaskFails(f)
    \/ \E c \in Requests :
         StartRequest(c) \/ RequestStep(c) \/ Disconnect(c) \/ RequestFails(c)
    \/ CleanupStep
    \/ CleanupFails
    \/ Crash

Spec == Init /\ [][Next]_vars

\* The event loop runs what can run, and cron starts the clean-up every night.
\* Nobody has to send a request, and no date has to arrive.
FairSpec ==
    /\ Spec
    /\ \A f \in Files : WF_vars(TaskStep(f)) /\ WF_vars(UploadStep(f))
    /\ \A c \in Requests : WF_vars(RequestStep(c))
    /\ WF_vars(CleanupStep)

-----------------------------------------------------------------------------
(* Properties *)

Document == [status: ScanStatus \union {"unborn", "deleted"},
             once: BOOLEAN, expired: BOOLEAN]

RequestState ==
    [pc: {"idle", "open", "stream", "after", "delete", "unlink", "done", "gone", "broken"},
     kind: {"owner", "link", "admin"}, file: Files \union {NoFile}, known: BOOLEAN]

JobState ==
    [pc: {"idle", "next", "delete"}, todo: SUBSET Files, known: SUBSET Files,
     cur: Files \union {NoFile}]

TypeOK ==
    /\ recs \in [Files -> Document]
    /\ staging \in SUBSET Files
    /\ blob \in [Files -> {"none", "partial", "full"}]
    /\ malware \in SUBSET Files
    /\ task \in [Files -> Running \union {"none", "done", "blocked", "lost"}]
    /\ req \in [Requests -> RequestState]
    /\ job \in JobState
    /\ faults \in 0..MaxFaults
    /\ blind \in SUBSET Files

\* A document that says clean and has not expired has its complete encrypted
\* file, whoever deletes, cleans up or fails meanwhile.
CleanHasBlob ==
    \A f \in Files :
        recs[f].status = "clean" /\ ~recs[f].expired => blob[f] = "full"

\* A download that finds no file after it was granted met a deletion or the
\* expiry of the file, never a file that was not complete yet.
BrokenOnlyIfGone ==
    \A c \in Requests :
        req[c].pc = "broken" =>
            LET d == recs[req[c].file] IN d.status = "deleted" \/ d.expired

\* Nothing the scanner recognises is ever sent to anybody.
NoMalwareServed ==
    \A c \in Requests : req[c].pc \in {"stream", "after"} => req[c].file \notin malware

\* Plaintext is on disk only while its upload goes on, after a failed scan, or
\* because a fault stopped the upload.
PlaintextAccounted ==
    \A f \in staging :
        task[f] \in {"receive", "queued", "encrypt", "scan_failed", "blocked", "lost"}

\* Without faults, an encrypted file whose document is deleted is about to be
\* removed, unless the deleter had read the document before it had a path.
OrphansOnlyFromRaces ==
    faults = 0 =>
        \A f \in Files :
            recs[f].status = "deleted" /\ blob[f] # "none" =>
                \/ f \in blind
                \/ \E c \in Requests : req[c].pc = "unlink" /\ req[c].file = f /\ req[c].known

\* Every upload that was answered leaves its staging phase: the task ends, or a
\* fault ended it.
ScanEnds ==
    \A f \in Files : task[f] = "queued" ~> task[f] \in {"done", "blocked", "lost"}

\* An expired file is deleted some night, also after clean-ups that failed, and
\* also if its upload was lost half way.
ExpiredFilesGo ==
    \A f \in Files : Live(f) /\ recs[f].expired ~> recs[f].status = "deleted"

\* A file that destroys itself is gone after a user has downloaded it, also
\* when others download it at the same time, unless the client left before the
\* end or a fault stopped what was to follow.
OwnerDownloadDestroys ==
    \A c \in Requests, f \in Files :
        req[c].pc = "stream" /\ req[c].kind = "owner" /\ req[c].file = f /\ recs[f].once
            ~> recs[f].status = "deleted" \/ req[c].pc = "gone" \/ faults > 0

(* Claims of the documentation that the code does not keep. *)

\* "deletes the file itself right after its first successful download",
\* whichever route it was downloaded by.
DownloadDestroys ==
    \A c \in Requests, f \in Files :
        req[c].pc = "done" /\ req[c].kind # "admin" /\ req[c].file = f /\ recs[f].once
            ~> recs[f].status = "deleted"

==============================================================================
