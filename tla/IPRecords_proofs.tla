--------------------------- MODULE IPRecords_proofs ---------------------------
(***************************************************************************)
(* Theorems about IPRecords, for any number of records, addresses, checks  *)
(* and nightly jobs.  The inductive invariant is                           *)
(*     TypeOK /\ BusyHasRecord /\ UniqueKey /\ StaleOnlyIfRacing           *)
(*            /\ BatchAccounted                                            *)
(* and for the nightly jobs themselves, whose lock file JobLock models,    *)
(* LockIInv: the file of a working run is there and as old as the run, so  *)
(* no run that comes to the lock gets past it while another works.         *)
(***************************************************************************)
EXTENDS IPRecords, JobLock, TLAPS

\* A worker about to write names the record it will write to.
BusyHasRecord ==
    /\ \A c \in Checks : chk[c].pc = "probe" => chk[c].cur \in Ids
    /\ \A j \in Jobs : jobs[j].pc = "update" => jobs[j].cur \in Ids
    /\ \A j \in Jobs : jobs[j].pc \in {"insert", "update"} => jobs[j].ip \in IPs

Typed == TypeOK /\ BusyHasRecord

-----------------------------------------------------------------------------
(* What the shared helpers return. *)

\* A blank document is a document, in either of the two missing states.
LEMMA BlankType ==
    ASSUME NEW s \in Missing PROVE Blank(s) \in Record
  BY DEF Blank, Record, Scopes

\* An insert adds one document under an id that was never used.
LEMMA InsertType ==
    ASSUME TypeOK, NEW id \in Ids, NEW ip \in IPs, NEW vrf \in Scopes,
           NEW st \in Status, Insert(id, ip, vrf, st)
    PROVE  recs' \in [Ids -> Record]
  BY DEF Insert, TypeOK, Record

\* A document with another status and holder.
LEMMA Rewritten ==
    ASSUME NEW d \in Record, NEW st \in Status, NEW h \in Users \union {NoUser}
    PROVE  /\ [d EXCEPT !.status = st] \in Record
           /\ [d EXCEPT !.status = st, !.holder = h] \in Record
  BY DEF Record

\* Setting the status keeps every document a document.
LEMMA SetStatusType ==
    ASSUME TypeOK, NEW id \in Ids, NEW st \in Status, SetStatus(id, st)
    PROVE  recs' \in [Ids -> Record]
  <1> DEFINE r == [recs[id] EXCEPT !.status = st]
  <1>1. r \in Record
    BY Rewritten DEF TypeOK
  <1>2. recs' = recs \/ recs' = [recs EXCEPT ![id] = r]
    BY DEF SetStatus, TypeOK
  <1> HIDE DEF r
  <1> QED BY <1>1, <1>2 DEF TypeOK

\* The API handlers keep the collection well typed and touch nothing else.
LEMMA ApiType ==
    ASSUME TypeOK, ApiStep
    PROVE  recs' \in [Ids -> Record] /\ UNCHANGED <<chk, jobs>>
  <1>1. ASSUME NEW id \in Ids, NEW ip \in IPs, NEW vrf \in Scopes,
               NEW st \in Status, Create(id, ip, vrf, st)
        PROVE  recs' \in [Ids -> Record] /\ UNCHANGED <<chk, jobs>>
    BY <1>1, InsertType DEF Create
  <1>2. ASSUME NEW id \in Ids, NEW ip \in IPs, NEW st \in Status, ImportRow(id, ip, st)
        PROVE  recs' \in [Ids -> Record] /\ UNCHANGED <<chk, jobs>>
    BY <1>2, InsertType DEF ImportRow, Scopes
  <1>3. ASSUME NEW id \in Ids, NEW st \in Status, Update(id, st)
        PROVE  recs' \in [Ids -> Record] /\ UNCHANGED <<chk, jobs>>
    BY <1>3, SetStatusType DEF Update
  <1>4. ASSUME NEW id \in Ids, Delete(id)
        PROVE  recs' \in [Ids -> Record] /\ UNCHANGED <<chk, jobs>>
    BY <1>4, BlankType DEF Delete, TypeOK, Missing
  <1>5. ASSUME NEW id \in Ids, NEW u \in Users, Reserve(id, u)
        PROVE  recs' \in [Ids -> Record] /\ UNCHANGED <<chk, jobs>>
    <2> DEFINE r == [recs[id] EXCEPT !.status = "Reserved", !.holder = u]
    <2>1. r \in Record
      BY Rewritten DEF TypeOK, Status
    <2>2. recs' = [recs EXCEPT ![id] = r] /\ UNCHANGED <<chk, jobs>>
      BY <1>5 DEF Reserve, TypeOK
    <2> HIDE DEF r
    <2> QED BY <2>1, <2>2 DEF TypeOK
  <1>6. ASSUME NEW id \in Ids, Release(id)
        PROVE  recs' \in [Ids -> Record] /\ UNCHANGED <<chk, jobs>>
    <2> DEFINE r == [recs[id] EXCEPT !.status = "Free", !.holder = NoUser]
    <2>1. r \in Record
      BY Rewritten DEF TypeOK, Status
    <2>2. recs' = [recs EXCEPT ![id] = r] /\ UNCHANGED <<chk, jobs>>
      BY <1>6 DEF Release, TypeOK
    <2> HIDE DEF r
    <2> QED BY <2>1, <2>2 DEF TypeOK
  <1>7. ASSUME NEW S \in SUBSET Ids, NEW st \in {"Reserved", "Free"},
               BulkUpdateStatus(S, st)
        PROVE  recs' \in [Ids -> Record] /\ UNCHANGED <<chk, jobs>>
    BY <1>7 DEF BulkUpdateStatus, TypeOK, Record, Status
  <1> QED
    BY <1>1, <1>2, <1>3, <1>4, <1>5, <1>6, <1>7 DEF ApiStep

\* A check moves through its states, keeps a record to write to while it
\* probes, and never writes anything but documents.
LEMMA CheckType ==
    ASSUME Typed, NEW c \in Checks, CheckStart(c) \/ CheckStep(c) \/ Disconnect(c)
    PROVE  /\ recs' \in [Ids -> Record]
           /\ chk' \in [Checks -> CheckState]
           /\ \A d \in Checks : chk'[d].pc = "probe" => chk'[d].cur \in Ids
           /\ UNCHANGED jobs
  <1> DEFINE Goal == /\ recs' \in [Ids -> Record]
                     /\ chk' \in [Checks -> CheckState]
                     /\ \A d \in Checks : chk'[d].pc = "probe" => chk'[d].cur \in Ids
                     /\ UNCHANGED jobs
  <1> USE DEF Typed, BusyHasRecord
  <1>0. IdleCheck \in CheckState
    BY DEF IdleCheck, CheckState, Missing
  <1>a. ASSUME NEW ok \in BOOLEAN, chk[c].pc = "probe", Leave(c, ok)
        PROVE  /\ chk' \in [Checks -> CheckState]
               /\ \A d \in Checks : chk'[d].pc = "probe" => chk'[d].cur \in Ids
    <2> DEFINE s == chk[c]
               n == s.scanned + (IF ok THEN 1 ELSE 0)
               e == s.errors + (IF ok THEN 0 ELSE 1)
               r == [s EXCEPT !.pc = "next", !.cur = NoId, !.snap = "unborn",
                              !.scanned = n, !.errors = e]
    <2>1. s \in CheckState
      BY DEF TypeOK
    <2>2. r \in CheckState /\ r.pc = "next"
      <3> HIDE DEF s
      <3>1. s.scanned \in Nat /\ s.errors \in Nat
        BY <2>1 DEF CheckState
      <3>2. n \in Nat /\ e \in Nat
        BY <3>1
      <3> HIDE DEF n, e
      <3> QED BY <2>1, <3>2 DEF CheckState, Missing
    <2>3. chk' = [chk EXCEPT ![c] = r]
      BY <1>a DEF Leave
    <2> HIDE DEF r
    <2> QED BY <2>2, <2>3 DEF TypeOK
  <1>1. ASSUME NEW id \in Ids, NEW kind \in {"combined", "ping"}, StartCheck(c, kind, id)
        PROVE  Goal
    BY <1>1, <1>0 DEF StartCheck, TypeOK, CheckState, Record
  <1>2. ASSUME NEW n \in 1..MaxBatch, NEW ids \in BatchesOf(n), StartBulk(c, ids)
        PROVE  Goal
    <2>1. ids \in Seq(Ids) /\ Len(ids) \in Nat
      BY IPRecordsAssumption DEF BatchesOf
    <2> QED BY <2>1, <1>2, <1>0 DEF StartBulk, TypeOK, CheckState
  <1>3. ASSUME NextOfBulk(c)
        PROVE  Goal
    <2> DEFINE s == chk[c]
               id == Head(s.todo)
               rest == Tail(s.todo)
               e == s.errors + 1
               status == recs[id].status
               found == [s EXCEPT !.pc = "probe", !.todo = rest,
                                  !.cur = id, !.snap = status]
               gone == [s EXCEPT !.todo = rest, !.errors = e]
    <2>1. s \in CheckState /\ s.todo \in Seq(Ids) /\ s.todo # <<>> /\ s.pc = "next"
      BY <1>3 DEF NextOfBulk, TypeOK, CheckState
    <2>2. id \in Ids /\ rest \in Seq(Ids)
      BY <2>1
    <2>3. status \in Status \union Missing
      BY <2>2 DEF TypeOK, Record
    <2>e. e \in Nat
      BY <2>1 DEF CheckState
    <2>4. /\ found \in CheckState /\ found.cur = id
          /\ gone \in CheckState /\ gone.pc = "next"
      <3> HIDE DEF s, id, rest, e, status
      <3> QED BY <2>1, <2>2, <2>3, <2>e DEF CheckState
    <2>5. chk' = [chk EXCEPT ![c] = found] \/ chk' = [chk EXCEPT ![c] = gone]
      BY <1>3 DEF NextOfBulk
    <2>6. UNCHANGED <<recs, jobs>>
      BY <1>3 DEF NextOfBulk
    <2> HIDE DEF found, gone, id
    <2> QED BY <2>2, <2>4, <2>5, <2>6 DEF TypeOK
  <1>4. ASSUME NEW found \in BOOLEAN, ApplyFinding(c, found)
        PROVE  Goal
    <2>1. recs' \in [Ids -> Record]
      <3>1. CASE ~found
        BY <3>1, <1>4 DEF ApplyFinding, TypeOK
      <3>2. CASE found
        <4>1. chk[c].cur \in Ids /\ Upgrade(chk[c].cur, chk[c].snap)
          BY <3>2, <1>4 DEF ApplyFinding
        <4>2. SetStatus(chk[c].cur, recs[chk[c].cur].status)
                \/ SetStatus(chk[c].cur, "In Use")
          BY <4>1 DEF Upgrade
        <4> QED BY <4>1, <4>2, SetStatusType DEF SetStatus, Live, TypeOK, Status
      <3> QED BY <3>1, <3>2
    <2> QED BY <2>1, <1>4, <1>a DEF ApplyFinding
  <1>5. ASSUME NEW reachable \in BOOLEAN, NEW auto \in BOOLEAN,
               ApplyPing(c, reachable, auto)
        PROVE  Goal
    <2>1. chk[c].cur \in Ids /\ chk[c].pc = "probe"
      BY <1>5 DEF ApplyPing
    <2>2. UNCHANGED recs \/ SetStatus(chk[c].cur, "In Use")
                         \/ SetStatus(chk[c].cur, "Free")
      BY <1>5 DEF ApplyPing
    <2>3. recs' \in [Ids -> Record]
      BY <2>1, <2>2, SetStatusType DEF TypeOK, Status
    <2> QED BY <2>1, <2>3, <1>5, <1>a DEF ApplyPing
  <1>6. CASE ApplyError(c)
    <2>1. chk[c].pc = "probe" /\ Leave(c, FALSE) /\ UNCHANGED <<recs, jobs>>
      BY <1>6 DEF ApplyError
    <2>2. /\ chk' \in [Checks -> CheckState]
          /\ \A d \in Checks : chk'[d].pc = "probe" => chk'[d].cur \in Ids
      BY <2>1, <1>a
    <2> QED BY <2>1, <2>2 DEF TypeOK
  <1>7. CASE FinishCheck(c)
    <2> DEFINE r == [chk[c] EXCEPT !.pc = "done"]
    <2>1. r \in CheckState /\ r.pc = "done"
      BY DEF TypeOK, CheckState
    <2>2. chk' = [chk EXCEPT ![c] = r] /\ UNCHANGED <<recs, jobs>>
      BY <1>7 DEF FinishCheck
    <2> HIDE DEF r
    <2> QED BY <2>1, <2>2 DEF TypeOK
  <1>8. CASE Disconnect(c)
    BY <1>8, <1>0 DEF Disconnect, TypeOK, CheckState
  <1> QED
    BY <1>1, <1>2, <1>3, <1>4, <1>5, <1>6, <1>7, <1>8 DEF CheckStart, CheckStep

\* The same for a nightly job.
LEMMA JobType ==
    ASSUME Typed, NEW j \in Jobs,
           JobStep(j) \/ \E feed \in SUBSET IPs : StartJob(j, feed)
    PROVE  /\ recs' \in [Ids -> Record]
           /\ jobs' \in [Jobs -> JobState]
           /\ \A k \in Jobs : /\ jobs'[k].pc = "update" => jobs'[k].cur \in Ids
                              /\ jobs'[k].pc \in {"insert", "update"} => jobs'[k].ip \in IPs
           /\ UNCHANGED chk
  <1> DEFINE Moved == /\ jobs' \in [Jobs -> JobState]
                      /\ \A k \in Jobs :
                           /\ jobs'[k].pc = "update" => jobs'[k].cur \in Ids
                           /\ jobs'[k].pc \in {"insert", "update"} => jobs'[k].ip \in IPs
             Goal == recs' \in [Ids -> Record] /\ Moved /\ UNCHANGED chk
  <1> USE DEF Typed, BusyHasRecord
  <1>0. IdleJob \in JobState
    BY DEF IdleJob, JobState, Missing
  <1>a. ASSUME SyncNext(j) PROVE Moved
    <2> DEFINE s == jobs[j]
               r == [s EXCEPT !.pc = "read", !.todo = s.todo \ {s.ip},
                              !.ip = NoIP, !.cur = NoId, !.snap = "unborn"]
    <2>1. s \in JobState
      BY DEF TypeOK
    <2>2. r \in JobState /\ r.pc = "read"
      <3> HIDE DEF s
      <3> QED BY <2>1 DEF JobState, Missing
    <2>3. jobs' = [jobs EXCEPT ![j] = r]
      BY <1>a DEF SyncNext
    <2> HIDE DEF r
    <2> QED BY <2>2, <2>3 DEF TypeOK
  <1>b. \A st \in Verdicts(j) : st \in Status
    BY DEF Verdicts, Status
  <1>1. ASSUME NEW feed \in SUBSET IPs, StartJob(j, feed)
        PROVE  Goal
    BY <1>1, <1>0 DEF StartJob, TypeOK, JobState
  <1>2. ASSUME NEW ip \in IPs, SyncRead(j, ip)
        PROVE  Goal
    <2> DEFINE s == jobs[j]
               missing == [s EXCEPT !.pc = "insert", !.ip = ip]
               known(id) == [s EXCEPT !.pc = "update", !.ip = ip, !.cur = id,
                                      !.snap = recs[id].status]
    <2>1. s \in JobState
      BY DEF TypeOK
    <2>2. missing \in JobState /\ missing.pc = "insert" /\ missing.ip = ip
      <3> HIDE DEF s
      <3> QED BY <2>1 DEF JobState
    <2>3. ASSUME NEW id \in Ids
          PROVE  known(id) \in JobState /\ known(id).cur = id /\ known(id).ip = ip
      <3>1. recs[id].status \in Status \union Missing
        BY DEF TypeOK, Record
      <3> HIDE DEF s
      <3> QED BY <2>1, <3>1 DEF JobState
    <2>4. \/ jobs' = [jobs EXCEPT ![j] = missing]
          \/ \E id \in Ids : jobs' = [jobs EXCEPT ![j] = known(id)]
      BY <1>2 DEF SyncRead
    <2>5. UNCHANGED <<recs, chk>>
      BY <1>2 DEF SyncRead
    <2> HIDE DEF missing, known
    <2> QED BY <2>2, <2>3, <2>4, <2>5 DEF TypeOK
  <1>3. ASSUME NEW st \in Verdicts(j), SyncUpdate(j, st)
        PROVE  Goal
    <2>1. jobs[j].cur \in Ids /\ SyncNext(j) /\ UNCHANGED chk
      BY <1>3 DEF SyncUpdate
    <2>2. recs' \in [Ids -> Record]
      BY <2>1, <1>b, <1>3 DEF SyncUpdate, TypeOK, Record, Scopes
    <2> QED BY <2>1, <2>2, <1>a
  <1>4. ASSUME NEW st \in Verdicts(j), NEW id \in Ids, SyncInsert(j, id, st)
        PROVE  Goal
    <2>1. jobs[j].ip \in IPs /\ Global \in Scopes /\ st \in Status
      BY <1>4, <1>b DEF SyncInsert, Scopes
    <2> QED BY <2>1, <1>4, <1>a, InsertType DEF SyncInsert
  <1>5. CASE SyncInsertFails(j)
    BY <1>5, <1>a DEF SyncInsertFails, TypeOK
  <1>6. CASE EndJob(j)
    BY <1>6, <1>0 DEF EndJob, TypeOK, JobState
  <1> QED
    BY <1>1, <1>2, <1>3, <1>4, <1>5, <1>6 DEF JobStep

-----------------------------------------------------------------------------
(* Type correctness *)

\* Typed is inductive.
LEMMA TypedStep == Typed /\ [Next]_vars => Typed'
  <1> SUFFICES ASSUME Typed, [Next]_vars PROVE Typed'
    OBVIOUS
  <1>1. CASE UNCHANGED vars
    BY <1>1 DEF vars, Typed, TypeOK, BusyHasRecord
  <1>2. CASE Next
    <2> DEFINE Others == /\ recs' \in [Ids -> Record]
                         /\ chk' \in [Checks -> CheckState]
                         /\ jobs' \in [Jobs -> JobState]
                         /\ BusyHasRecord'
    <2>1. ASSUME ApiStep PROVE Others
      BY <2>1, ApiType DEF Typed, TypeOK, BusyHasRecord
    <2>2. ASSUME NEW c \in Checks, CheckStart(c) \/ CheckStep(c) \/ Disconnect(c)
          PROVE  Others
      BY <2>2, CheckType DEF Typed, TypeOK, BusyHasRecord
    <2>3. ASSUME NEW j \in Jobs, JobStep(j) \/ \E feed \in SUBSET IPs : StartJob(j, feed)
          PROVE  Others
      BY <2>3, JobType DEF Typed, TypeOK, BusyHasRecord
    <2>4. ASSUME NextNight PROVE Others
      <3>1. IdleJob \in JobState /\ IdleJob.pc = "idle"
        BY DEF IdleJob, JobState, Missing
      <3> QED BY <2>4, <3>1 DEF NextNight, Typed, TypeOK, BusyHasRecord
    <2>5. Others
      BY <2>1, <2>2, <2>3, <2>4, <1>2 DEF Next, Step
    <2>6. racers' \in [Ids -> SUBSET Workers]
      BY <1>2 DEF Next, TrackRacers, Typed, TypeOK
    <2> QED BY <2>5, <2>6 DEF Typed, TypeOK
  <1> QED BY <1>1, <1>2 DEF Next

LEMMA TypedInit == Init => Typed
  <1> SUFFICES ASSUME Init PROVE Typed
    OBVIOUS
  <1>1. IdleCheck \in CheckState /\ IdleCheck.pc = "idle"
    BY DEF IdleCheck, CheckState, Missing
  <1>2. IdleJob \in JobState /\ IdleJob.pc = "idle"
    BY DEF IdleJob, JobState, Missing
  <1>3. Blank("unborn") \in Record
    BY BlankType DEF Missing
  <1> QED
    BY <1>1, <1>2, <1>3, IPRecordsAssumption DEF Init, Typed, TypeOK, BusyHasRecord

\* The documents, the checks in flight and the jobs always have their types:
\* no handler and no job writes a malformed status, holder or key.
THEOREM TypeCorrect == Spec => []TypeOK
  BY TypedInit, TypedStep, PTL DEF Spec, Typed

-----------------------------------------------------------------------------
(* The history of snapshots *)

\* A worker keeps its record and its snapshot, or lets the record go, or takes
\* the record as it is now.
SnapshotKept(w) == Cur(w)' = Cur(w) /\ Snap(w)' = Snap(w)
SnapshotLet(w)  == Cur(w)' = NoId
SnapshotRead(w) == /\ Cur(w)' \in Ids
                   /\ Snap(w)' = recs[Cur(w)'].status
                   /\ recs' = recs

LEMMA SnapshotStep ==
    ASSUME Typed, Step, NEW w \in Workers
    PROVE  SnapshotKept(w) \/ SnapshotLet(w) \/ SnapshotRead(w)
  <1> USE DEF SnapshotKept, SnapshotLet, SnapshotRead, Cur, Snap
  <1>0. ASSUME UNCHANGED <<chk, jobs>> PROVE SnapshotKept(w)
    BY <1>0
  <1>1. CASE ApiStep
    BY <1>1, <1>0, ApiType DEF Typed
  <1>2. CASE NextNight
    BY <1>2 DEF NextNight, IdleJob, Workers
  <1>3. ASSUME NEW c \in Checks, CheckStart(c) \/ CheckStep(c) \/ Disconnect(c)
        PROVE  SnapshotKept(w) \/ SnapshotLet(w) \/ SnapshotRead(w)
    <2>1. UNCHANGED jobs /\ chk' \in [Checks -> CheckState]
      BY <1>3, CheckType
    <2>2. CASE w # c
      <3>1. \/ \E r : chk' = [chk EXCEPT ![c] = r]
        BY <1>3 DEF CheckStart, CheckStep, StartCheck, StartBulk, NextOfBulk, ApplyFinding,
              ApplyPing, ApplyError, FinishCheck, Disconnect, Leave
      <3> QED BY <3>1, <2>1, <2>2 DEF Workers, Typed, TypeOK
    <2>3. CASE w = c
      <3>1. ASSUME NEW id \in Ids, NEW kind \in {"combined", "ping"}, StartCheck(c, kind, id)
            PROVE  SnapshotRead(w)
        BY <3>1, <2>3 DEF StartCheck, Typed, TypeOK
      <3>2. ASSUME NEW n \in 1..MaxBatch, NEW ids \in BatchesOf(n), StartBulk(c, ids)
            PROVE  SnapshotLet(w)
        BY <3>2, <2>3 DEF StartBulk, IdleCheck, Typed, TypeOK
      <3>3. ASSUME NextOfBulk(c)
            PROVE  SnapshotRead(w) \/ SnapshotKept(w)
        <4>1. Head(chk[c].todo) \in Ids
          BY <3>3 DEF NextOfBulk, Typed, TypeOK, CheckState
        <4> DEFINE s == chk[c]
                   id == Head(s.todo)
                   rest == Tail(s.todo)
                   e == s.errors + 1
                   status == recs[id].status
                   found == [s EXCEPT !.pc = "probe", !.todo = rest,
                                      !.cur = id, !.snap = status]
                   gone == [s EXCEPT !.todo = rest, !.errors = e]
        <4>2. /\ chk' = [chk EXCEPT ![c] = found] \/ chk' = [chk EXCEPT ![c] = gone]
              /\ recs' = recs
          BY <3>3 DEF NextOfBulk
        <4>3. /\ found.cur = id /\ found.snap = status
              /\ gone.cur = s.cur /\ gone.snap = s.snap
          <5>1. s \in CheckState
            BY DEF Typed, TypeOK
          <5> HIDE DEF s, id, rest, e, status
          <5> QED BY <5>1 DEF CheckState
        <4>4. chk'[c] = found \/ chk'[c] = gone
          <5> HIDE DEF found, gone
          <5> QED BY <4>2 DEF Typed, TypeOK
        <4>5. Cur(w)' = chk'[c].cur /\ Snap(w)' = chk'[c].snap
              /\ Cur(w) = s.cur /\ Snap(w) = s.snap
          BY <2>3
        <4> HIDE DEF found, gone, id, status, s
        <4>6. CASE chk'[c] = found
          BY <4>1, <4>2, <4>3, <4>5, <4>6 DEF id, status, s
        <4>7. CASE chk'[c] = gone
          BY <4>3, <4>5, <4>7
        <4> QED BY <4>4, <4>6, <4>7
      <3>4. ASSUME NEW ok \in BOOLEAN, Leave(c, ok)
            PROVE  SnapshotLet(w)
        BY <3>4, <2>3 DEF Leave, Typed, TypeOK, CheckState
      <3>5. CASE FinishCheck(c)
        BY <3>5, <2>3 DEF FinishCheck, Typed, TypeOK, CheckState
      <3>6. CASE Disconnect(c)
        BY <3>6, <2>3 DEF Disconnect, IdleCheck, Typed, TypeOK, CheckState
      <3> QED
        BY <3>1, <3>2, <3>3, <3>4, <3>5, <3>6, <1>3
        DEF CheckStart, CheckStep, ApplyFinding, ApplyPing, ApplyError
    <2> QED BY <2>2, <2>3
  <1>4. ASSUME NEW j \in Jobs, JobStep(j) \/ \E feed \in SUBSET IPs : StartJob(j, feed)
        PROVE  SnapshotKept(w) \/ SnapshotLet(w) \/ SnapshotRead(w)
    <2>1. UNCHANGED chk /\ jobs' \in [Jobs -> JobState]
      BY <1>4, JobType
    <2>2. CASE w # j \/ w \in Checks
      <3>1. \E r : jobs' = [jobs EXCEPT ![j] = r]
        BY <1>4 DEF JobStep, StartJob, SyncRead, SyncUpdate, SyncInsert,
              SyncInsertFails, EndJob, SyncNext
      <3> QED BY <3>1, <2>1, <2>2 DEF Workers, Typed, TypeOK
    <2>3. CASE w = j /\ w \notin Checks
      <3>1. ASSUME NEW feed \in SUBSET IPs, StartJob(j, feed)
            PROVE  SnapshotLet(w)
        BY <3>1, <2>3 DEF StartJob, IdleJob, Typed, TypeOK
      <3>2. ASSUME NEW ip \in IPs, SyncRead(j, ip)
            PROVE  SnapshotRead(w) \/ SnapshotKept(w)
        <4> DEFINE s == jobs[j]
                   missing == [s EXCEPT !.pc = "insert", !.ip = ip]
                   known(id) == [s EXCEPT !.pc = "update", !.ip = ip, !.cur = id,
                                          !.snap = recs[id].status]
        <4>1. s \in JobState /\ recs' = recs
          BY <3>2 DEF SyncRead, Typed, TypeOK
        <4>2. \/ jobs' = [jobs EXCEPT ![j] = missing]
              \/ \E id \in Ids : jobs' = [jobs EXCEPT ![j] = known(id)]
          BY <3>2 DEF SyncRead
        <4>3. /\ missing.cur = s.cur /\ missing.snap = s.snap
              /\ \A id \in Ids : known(id).cur = id /\ known(id).snap = recs[id].status
          <5> HIDE DEF s
          <5> QED BY <4>1 DEF JobState
        <4>4. jobs'[j] = missing \/ \E id \in Ids : jobs'[j] = known(id)
          <5> HIDE DEF missing, known
          <5> QED BY <4>2 DEF Typed, TypeOK
        <4>5. Cur(w)' = jobs'[j].cur /\ Snap(w)' = jobs'[j].snap
              /\ Cur(w) = s.cur /\ Snap(w) = s.snap
          BY <2>3
        <4> HIDE DEF missing, known, s
        <4> QED BY <4>1, <4>3, <4>4, <4>5
      <3>3. ASSUME SyncNext(j)
            PROVE  SnapshotLet(w)
        BY <3>3, <2>3 DEF SyncNext, Typed, TypeOK, JobState
      <3>4. CASE EndJob(j)
        BY <3>4, <2>3 DEF EndJob, IdleJob, Typed, TypeOK
      <3> QED
        BY <3>1, <3>2, <3>3, <3>4, <1>4
        DEF JobStep, SyncUpdate, SyncInsert, SyncInsertFails
    <2> QED BY <2>2, <2>3
  <1> QED
    BY <1>1, <1>2, <1>3, <1>4 DEF Step

LEMMA StaleStep == Typed /\ StaleOnlyIfRacing /\ [Next]_vars => StaleOnlyIfRacing'
  <1> SUFFICES ASSUME Typed, StaleOnlyIfRacing, [Next]_vars,
                      NEW w \in Workers, NEW id \in Ids,
                      Holds(w, id)', recs'[id].status = "Reserved", Snap(w)' # "Reserved"
               PROVE  w \in racers'[id]
    BY DEF StaleOnlyIfRacing
  <1>1. CASE UNCHANGED vars
    BY <1>1 DEF vars, StaleOnlyIfRacing, Holds, Cur, Snap
  <1>2. CASE Next
    <2>1. SnapshotKept(w) \/ SnapshotLet(w) \/ SnapshotRead(w)
      BY <1>2, SnapshotStep DEF Next
    <2>2. ~SnapshotLet(w)
      BY IPRecordsAssumption DEF SnapshotLet, Holds
    <2>3. ~SnapshotRead(w)
      BY DEF SnapshotRead, Holds
    <2>4. Holds(w, id) /\ Snap(w) # "Reserved"
      BY <2>1, <2>2, <2>3 DEF SnapshotKept, Holds
    <2>5. CASE recs[id].status = "Reserved"
      <3>1. w \in racers[id]
        BY <2>4, <2>5 DEF StaleOnlyIfRacing
      <3> QED BY <3>1, <2>5, <1>2 DEF Next, TrackRacers
    <2>6. CASE recs[id].status # "Reserved"
      BY <2>4, <2>6, <1>2 DEF Next, TrackRacers
    <2> QED BY <2>5, <2>6
  <1> QED BY <1>1, <1>2

LEMMA StaleInit == Init => StaleOnlyIfRacing
  BY DEF Init, StaleOnlyIfRacing, Blank

\* Whenever a check or a job is about to act on a Reserved record on the
\* strength of a snapshot that does not say Reserved, it is on record as one
\* that read before the reservation.
THEOREM StaleAlwaysRacing == Spec => []StaleOnlyIfRacing
  BY TypedInit, TypedStep, StaleInit, StaleStep, PTL DEF Spec

-----------------------------------------------------------------------------
(* What the worker that lets a record go did to it *)

\* Only the worker itself makes it let go of a record.
LEMMA LetGo ==
    ASSUME Typed, Step, NEW w \in Workers, NEW id \in Ids,
           Holds(w, id), ~Holds(w, id)', recs'[id] # recs[id]
    PROVE  \/ w \in Checks /\ CheckStep(w)
           \/ w \in Jobs /\ w \notin Checks /\ JobStep(w)
  <1>1. ~ApiStep
    BY ApiType DEF Typed, Holds, Cur
  <1>2. ~NextNight
    BY DEF NextNight
  <1>3. ASSUME NEW c \in Checks, CheckStart(c) \/ CheckStep(c) \/ Disconnect(c)
        PROVE  w = c /\ CheckStep(c)
    <2>1. UNCHANGED jobs
      BY <1>3, CheckType
    <2>2. \E r : chk' = [chk EXCEPT ![c] = r]
      BY <1>3 DEF CheckStart, CheckStep, StartCheck, StartBulk, NextOfBulk, ApplyFinding,
            ApplyPing, ApplyError, FinishCheck, Disconnect, Leave
    <2>3. w = c
      BY <2>1, <2>2 DEF Holds, Cur, Typed, TypeOK
    <2>4. ~CheckStart(c) /\ ~Disconnect(c)
      BY DEF CheckStart, StartCheck, StartBulk, Disconnect
    <2> QED BY <2>3, <2>4, <1>3
  <1>4. ASSUME NEW j \in Jobs, JobStep(j) \/ \E feed \in SUBSET IPs : StartJob(j, feed)
        PROVE  w = j /\ w \notin Checks /\ JobStep(j)
    <2>1. UNCHANGED chk
      BY <1>4, JobType
    <2>2. \E r : jobs' = [jobs EXCEPT ![j] = r]
      BY <1>4 DEF JobStep, StartJob, SyncRead, SyncUpdate, SyncInsert,
            SyncInsertFails, EndJob, SyncNext
    <2>3. w = j /\ w \notin Checks
      BY <2>1, <2>2 DEF Holds, Cur, Typed, TypeOK, Workers
    <2>4. ~\E feed \in SUBSET IPs : StartJob(j, feed)
      BY DEF StartJob
    <2> QED BY <2>3, <2>4, <1>4
  <1> QED
    BY <1>1, <1>2, <1>3, <1>4 DEF Step

\* A check that had seen the record Reserved leaves it Reserved, or is a ping
\* that raises it to In Use.
LEMMA CheckRespectsReserved ==
    ASSUME Typed, NEW w \in Checks, CheckStep(w), NEW id \in Ids, Holds(w, id),
           Snap(w) = "Reserved", recs[id].status = "Reserved",
           recs'[id].status # "Reserved"
    PROVE  chk[w].kind = "ping" /\ recs'[id].status = "In Use"
  <1>1. recs' # recs /\ chk[w].cur = id /\ chk[w].snap = "Reserved"
    BY DEF Holds, Cur, Snap
  <1>2. ASSUME NEW found \in BOOLEAN, ApplyFinding(w, found) PROVE FALSE
    BY <1>1, <1>2 DEF ApplyFinding, Upgrade, SetStatus, Typed, TypeOK, Record
  <1>3. ASSUME NEW reachable \in BOOLEAN, NEW auto \in BOOLEAN, ApplyPing(w, reachable, auto)
        PROVE  chk[w].kind = "ping" /\ recs'[id].status = "In Use"
    <2>1. reachable /\ chk[w].kind = "ping" /\ SetStatus(id, "In Use")
      BY <1>1, <1>3 DEF ApplyPing
    <2>2. Live(id) /\ recs' = [recs EXCEPT ![id].status = "In Use"]
      BY <1>1, <2>1 DEF SetStatus
    <2>3. recs'[id].status = "In Use"
      BY <2>2 DEF Typed, TypeOK, Record
    <2> QED BY <2>1, <2>3
  <1> QED
    BY <1>1, <1>2, <1>3 DEF CheckStep, NextOfBulk, ApplyError, FinishCheck

\* A job that had seen the record Reserved leaves it Reserved.
LEMMA JobRespectsReserved ==
    ASSUME Typed, NEW w \in Jobs, w \notin Checks, JobStep(w), NEW id \in Ids,
           Holds(w, id), Snap(w) = "Reserved", recs[id].status = "Reserved"
    PROVE  recs'[id].status = "Reserved"
  <1>1. jobs[w].snap = "Reserved"
    BY DEF Snap
  <1>2. ASSUME NEW st \in Verdicts(w), SyncUpdate(w, st)
        PROVE  recs'[id].status = "Reserved"
    BY <1>1, <1>2 DEF SyncUpdate, Typed, TypeOK, Record
  <1>3. ASSUME NEW st \in Verdicts(w), NEW o \in Ids, SyncInsert(w, o, st)
        PROVE  recs'[id].status = "Reserved"
    BY <1>3 DEF SyncInsert, Insert, Typed, TypeOK, Record
  <1> QED
    BY <1>2, <1>3 DEF JobStep, SyncRead, SyncInsertFails, EndJob

\* No check and no nightly job takes a record out of Reserved unless the
\* reservation came between its read and its write, whatever the number of
\* records, checks and jobs; a ping that is answered is the one exception.
THEOREM ReservationsOutliveReaders == Spec => ReservedLostOnlyToRacer
  <1>1. Typed /\ StaleOnlyIfRacing /\ [Next]_vars
          => [\A w \in Workers, id \in Ids :
                /\ Holds(w, id) /\ ~Holds(w, id)'
                /\ recs[id].status = "Reserved" /\ recs'[id].status # "Reserved"
                => \/ w \in racers[id]
                   \/ w \in Checks /\ chk[w].kind = "ping"
                        /\ recs'[id].status = "In Use"]_vars
    <2> SUFFICES ASSUME Typed, StaleOnlyIfRacing, Next,
                        NEW w \in Workers, NEW id \in Ids,
                        Holds(w, id), ~Holds(w, id)',
                        recs[id].status = "Reserved", recs'[id].status # "Reserved",
                        w \notin racers[id]
                 PROVE  w \in Checks /\ chk[w].kind = "ping" /\ recs'[id].status = "In Use"
      OBVIOUS
    <2>1. Snap(w) = "Reserved"
      BY DEF StaleOnlyIfRacing
    <2>2. \/ w \in Checks /\ CheckStep(w)
          \/ w \in Jobs /\ w \notin Checks /\ JobStep(w)
      BY LetGo DEF Next
    <2> QED BY <2>1, <2>2, CheckRespectsReserved, JobRespectsReserved
  <1> QED
    BY <1>1, TypedInit, TypedStep, StaleInit, StaleStep, PTL
    DEF Spec, ReservedLostOnlyToRacer

-----------------------------------------------------------------------------
(* One document per address and scope *)

\* A write of one document under a key the index lets through.
LEMMA OneNewKey ==
    ASSUME TypeOK, UniqueKey, NEW id \in Ids, NEW r,
           recs' = [recs EXCEPT ![id] = r], KeyFree(id, r.ip, r.vrf)
    PROVE  UniqueKey'
  BY DEF UniqueKey, KeyFree, Live, TypeOK

\* A write that moves no document to another key and creates none.
LEMMA KeysKept ==
    ASSUME UniqueKey,
           \A id \in Ids : Live(id)' =>
               Live(id) /\ recs'[id].ip = recs[id].ip /\ recs'[id].vrf = recs[id].vrf
    PROVE  UniqueKey'
  BY DEF UniqueKey

LEMMA SetStatusKeys ==
    ASSUME TypeOK, UniqueKey, NEW id \in Ids, NEW st, SetStatus(id, st)
    PROVE  UniqueKey'
  BY KeysKept DEF SetStatus, TypeOK, Record, Live

LEMMA InsertKeys ==
    ASSUME TypeOK, UniqueKey, NEW id \in Ids, NEW ip, NEW vrf, NEW st,
           Insert(id, ip, vrf, st)
    PROVE  UniqueKey'
  BY OneNewKey DEF Insert

LEMMA UniqueKeyStep == Typed /\ UniqueKey /\ [Next]_vars => UniqueKey'
  <1> SUFFICES ASSUME Typed, UniqueKey, [Next]_vars PROVE UniqueKey'
    OBVIOUS
  <1> USE DEF Typed
  <1>0. ASSUME UNCHANGED recs PROVE UniqueKey'
    BY <1>0 DEF UniqueKey, Live
  <1>1. CASE ApiStep
    <2>1. ASSUME NEW id \in Ids, NEW ip \in IPs, NEW vrf \in Scopes, NEW st \in Status,
                 Create(id, ip, vrf, st)
          PROVE  UniqueKey'
      BY <2>1, InsertKeys DEF Create
    <2>2. ASSUME NEW id \in Ids, NEW ip \in IPs, NEW st \in Status, ImportRow(id, ip, st)
          PROVE  UniqueKey'
      BY <2>2, InsertKeys DEF ImportRow
    <2>3. ASSUME NEW id \in Ids, NEW st \in Status, Update(id, st)
          PROVE  UniqueKey'
      BY <2>3, SetStatusKeys DEF Update
    <2>4. ASSUME NEW id \in Ids, Delete(id)
          PROVE  UniqueKey'
      BY <2>4, KeysKept DEF Delete, Blank, Live, Status, TypeOK
    <2>5. ASSUME NEW id \in Ids, NEW u \in Users, Reserve(id, u)
          PROVE  UniqueKey'
      BY <2>5, KeysKept DEF Reserve, Live, Status, TypeOK, Record
    <2>6. ASSUME NEW id \in Ids, Release(id)
          PROVE  UniqueKey'
      BY <2>6, KeysKept DEF Release, Live, Status, TypeOK, Record
    <2>7. ASSUME NEW S \in SUBSET Ids, NEW st \in {"Reserved", "Free"}, BulkUpdateStatus(S, st)
          PROVE  UniqueKey'
      BY <2>7, KeysKept DEF BulkUpdateStatus, Live, TypeOK, Record
    <2> QED
      BY <1>1, <2>1, <2>2, <2>3, <2>4, <2>5, <2>6, <2>7 DEF ApiStep
  <1>2. ASSUME NEW c \in Checks, CheckStart(c) \/ CheckStep(c) \/ Disconnect(c)
        PROVE  UniqueKey'
    <2>1. ASSUME NEW found \in BOOLEAN, ApplyFinding(c, found)
          PROVE  UniqueKey'
      BY <2>1, <1>0, SetStatusKeys DEF ApplyFinding, Upgrade, BusyHasRecord
    <2>2. ASSUME NEW reachable \in BOOLEAN, NEW auto \in BOOLEAN, ApplyPing(c, reachable, auto)
          PROVE  UniqueKey'
      BY <2>2, <1>0, SetStatusKeys DEF ApplyPing, BusyHasRecord
    <2> QED
      BY <1>2, <1>0, <2>1, <2>2
      DEF CheckStart, CheckStep, StartCheck, StartBulk, NextOfBulk, ApplyError,
          FinishCheck, Disconnect
  <1>3. ASSUME NEW j \in Jobs, JobStep(j) \/ \E feed \in SUBSET IPs : StartJob(j, feed)
        PROVE  UniqueKey'
    <2>1. ASSUME NEW st \in Verdicts(j), SyncUpdate(j, st)
          PROVE  UniqueKey'
      <3> DEFINE id == jobs[j].cur
                 r == [recs[id] EXCEPT !.vrf = Global,
                         !.status = IF jobs[j].snap # "Reserved" THEN st ELSE recs[id].status]
      <3>1. id \in Ids
        BY <2>1 DEF SyncUpdate, BusyHasRecord
      <3>2. CASE Live(id) /\ KeyFree(id, recs[id].ip, Global)
        <4>1. recs' = [recs EXCEPT ![id] = r]
          BY <2>1, <3>2 DEF SyncUpdate
        <4>2. r.ip = recs[id].ip /\ r.vrf = Global
          BY <3>1 DEF TypeOK, Record
        <4> HIDE DEF r, id
        <4> QED BY <3>1, <3>2, <4>1, <4>2, OneNewKey
      <3>3. CASE ~(Live(id) /\ KeyFree(id, recs[id].ip, Global))
        BY <2>1, <3>3, <1>0 DEF SyncUpdate
      <3> QED BY <3>2, <3>3
    <2>2. ASSUME NEW st \in Verdicts(j), NEW id \in Ids, SyncInsert(j, id, st)
          PROVE  UniqueKey'
      BY <2>2, InsertKeys DEF SyncInsert
    <2> QED
      BY <1>3, <1>0, <2>1, <2>2 DEF JobStep, StartJob, SyncRead, SyncInsertFails, EndJob
  <1>4. CASE NextNight
    BY <1>4, <1>0 DEF NextNight
  <1>5. CASE UNCHANGED vars
    BY <1>5, <1>0 DEF vars
  <1> QED
    BY <1>1, <1>2, <1>3, <1>4, <1>5 DEF Next, Step

\* However creations, imports and nightly jobs interleave, no address has two
\* documents in one scope.
THEOREM KeysStayUnique == Spec => []UniqueKey
  <1>1. Init => UniqueKey
    <2> SUFFICES ASSUME Init, NEW id \in Ids PROVE ~Live(id)
      BY DEF UniqueKey
    <2>1. recs[id].status = "unborn"
      BY DEF Init, Blank
    <2> QED BY <2>1 DEF Live, Status
  <1> QED
    BY <1>1, TypedInit, TypedStep, UniqueKeyStep, PTL DEF Spec

-----------------------------------------------------------------------------
(* Every id of a batch *)

\* What a check has still to do and has done is what it was given.
Accounted(s) ==
    s.pc \in {"next", "probe", "done"} =>
        s.total = Len(s.todo) + s.scanned + s.errors + (IF s.pc = "probe" THEN 1 ELSE 0)

LEMMA BatchStep == Typed /\ BatchAccounted /\ [Next]_vars => BatchAccounted'
  <1> SUFFICES ASSUME Typed, \A c \in Checks : Accounted(chk[c]), [Next]_vars, NEW d \in Checks
               PROVE  Accounted(chk'[d])
    BY DEF BatchAccounted, Accounted
  <1>0. CASE UNCHANGED chk
    BY <1>0
  <1>1. ASSUME NEW c \in Checks, CheckStart(c) \/ CheckStep(c) \/ Disconnect(c)
        PROVE  Accounted(chk'[d])
    <2> DEFINE s == chk[c]
    <2>0. /\ chk \in [Checks -> CheckState] /\ s \in CheckState /\ Accounted(s)
          /\ s.todo \in Seq(Ids) /\ s.total \in Nat /\ s.scanned \in Nat /\ s.errors \in Nat
      BY DEF Typed, TypeOK, CheckState
    <2>a. ASSUME NEW r, chk' = [chk EXCEPT ![c] = r], Accounted(r)
          PROVE  Accounted(chk'[d])
      BY <2>0, <2>a
    <2>b. ASSUME NEW ok \in BOOLEAN, s.pc = "probe", Leave(c, ok)
          PROVE  Accounted(chk'[d])
      <3> DEFINE n == s.scanned + (IF ok THEN 1 ELSE 0)
                 e == s.errors + (IF ok THEN 0 ELSE 1)
                 r == [s EXCEPT !.pc = "next", !.cur = NoId, !.snap = "unborn",
                                !.scanned = n, !.errors = e]
      <3>1. n + e = s.scanned + s.errors + 1 /\ n \in Nat /\ e \in Nat
        BY <2>0
      <3>2. chk' = [chk EXCEPT ![c] = r]
        BY <2>b DEF Leave
      <3> HIDE DEF n, e
      <3>3. r.pc = "next" /\ r.todo = s.todo /\ r.total = s.total /\ r.scanned = n /\ r.errors = e
        BY <2>0 DEF CheckState
      <3> HIDE DEF r
      <3>4. Len(s.todo) \in Nat
        BY <2>0
      <3>5. s.total = Len(s.todo) + s.scanned + s.errors + 1
        BY <2>0, <2>b DEF Accounted
      <3>6. s.total = Len(s.todo) + n + e
        <4> DEFINE len == Len(s.todo)
                   scanned == s.scanned
                   errors == s.errors
                   total == s.total
        <4>1. /\ len \in Nat /\ scanned \in Nat /\ errors \in Nat /\ n \in Nat /\ e \in Nat
              /\ total = len + scanned + errors + 1 /\ n + e = scanned + errors + 1
          BY <2>0, <3>1, <3>4, <3>5
        <4> HIDE DEF len, scanned, errors, total
        <4>2. total = len + n + e
          BY <4>1
        <4> QED BY <4>2 DEF len, total
      <3>7. r.total = Len(r.todo) + r.scanned + r.errors
        BY <3>3, <3>6
      <3>8. r.total = Len(r.todo) + r.scanned + r.errors + 0
        BY <2>0, <3>1, <3>3, <3>4, <3>7
      <3>9. r.pc # "probe"
        BY <3>3
      <3>10. Accounted(r)
        BY <3>8, <3>9 DEF Accounted
      <3> QED BY <2>a, <3>2, <3>10
    <2>1. ASSUME NEW id \in Ids, NEW kind \in {"combined", "ping"}, StartCheck(c, kind, id)
          PROVE  Accounted(chk'[d])
      <3> DEFINE r == [IdleCheck EXCEPT !.pc = "probe", !.kind = kind, !.cur = id,
                                        !.snap = recs[id].status, !.total = 1]
      <3>1. Accounted(r)
        <4>1. r.pc = "probe" /\ r.todo = <<>> /\ r.total = 1 /\ r.scanned = 0 /\ r.errors = 0
          BY DEF IdleCheck
        <4> HIDE DEF r
        <4> QED BY <4>1 DEF Accounted
      <3>2. chk' = [chk EXCEPT ![c] = r]
        BY <2>1 DEF StartCheck
      <3> QED BY <2>a, <3>1, <3>2
    <2>2. ASSUME NEW n \in 1..MaxBatch, NEW ids \in BatchesOf(n), StartBulk(c, ids)
          PROVE  Accounted(chk'[d])
      <3> DEFINE r == [IdleCheck EXCEPT !.pc = "next", !.todo = ids, !.total = Len(ids)]
      <3>1. Len(ids) \in Nat
        BY IPRecordsAssumption DEF BatchesOf
      <3>2. Accounted(r)
        <4>1. r.pc = "next" /\ r.todo = ids /\ r.total = Len(ids) /\ r.scanned = 0 /\ r.errors = 0
          BY DEF IdleCheck
        <4> HIDE DEF r
        <4> QED BY <3>1, <4>1 DEF Accounted
      <3>3. chk' = [chk EXCEPT ![c] = r]
        BY <2>2 DEF StartBulk
      <3> QED BY <2>a, <3>2, <3>3
    <2>3. CASE NextOfBulk(c)
      <3> DEFINE id == Head(s.todo)
                 rest == Tail(s.todo)
                 e == s.errors + 1
                 found == [s EXCEPT !.pc = "probe", !.todo = rest,
                                    !.cur = id, !.snap = recs[id].status]
                 gone == [s EXCEPT !.todo = rest, !.errors = e]
      <3>1. s.pc = "next" /\ s.todo # <<>>
        BY <2>3 DEF NextOfBulk
      <3>2. Len(rest) \in Nat /\ Len(s.todo) = Len(rest) + 1
        BY <2>0, <3>1
      <3>3. s.total = Len(s.todo) + s.scanned + s.errors
        BY <2>0, <3>1 DEF Accounted
      <3>4. /\ found.pc = "probe" /\ found.todo = rest /\ found.total = s.total
            /\ found.scanned = s.scanned /\ found.errors = s.errors
            /\ gone.pc = "next" /\ gone.todo = rest /\ gone.total = s.total
            /\ gone.scanned = s.scanned /\ gone.errors = s.errors + 1
        <4> HIDE DEF id, rest
        <4> QED BY <2>0, <3>1 DEF CheckState
      <3>5. chk' = [chk EXCEPT ![c] = found] \/ chk' = [chk EXCEPT ![c] = gone]
        BY <2>3 DEF NextOfBulk
      <3> HIDE DEF id, rest, e, found, gone
      <3>6. /\ s.total = Len(rest) + s.scanned + s.errors + 1
            /\ s.total = Len(rest) + s.scanned + (s.errors + 1) + 0
        <4> DEFINE len == Len(s.todo)
                   left == Len(rest)
                   scanned == s.scanned
                   errors == s.errors
                   total == s.total
        <4>1. /\ left \in Nat /\ scanned \in Nat /\ errors \in Nat
              /\ len = left + 1 /\ total = len + scanned + errors
          BY <2>0, <3>2, <3>3
        <4> HIDE DEF len, left, scanned, errors, total
        <4>2. total = left + scanned + errors + 1 /\ total = left + scanned + (errors + 1) + 0
          BY <4>1
        <4> QED BY <4>2 DEF left, scanned, errors, total
      <3>7. /\ found.total = Len(found.todo) + found.scanned + found.errors + 1
            /\ gone.total = Len(gone.todo) + gone.scanned + gone.errors + 0
        BY <3>4, <3>6
      <3>8. Accounted(found)
        BY <3>4, <3>7 DEF Accounted
      <3>9. Accounted(gone)
        <4>1. gone.pc # "probe"
          BY <3>4
        <4> QED BY <3>7, <4>1 DEF Accounted
      <3> QED BY <2>a, <3>5, <3>8, <3>9
    <2>4. CASE FinishCheck(c)
      <3> DEFINE r == [s EXCEPT !.pc = "done"]
      <3>1. s.pc = "next" /\ chk' = [chk EXCEPT ![c] = r]
        BY <2>4 DEF FinishCheck
      <3>2. r.pc = "done" /\ r.todo = s.todo /\ r.total = s.total /\ r.scanned = s.scanned
            /\ r.errors = s.errors
        BY <2>0 DEF CheckState
      <3> HIDE DEF r
      <3>3. Accounted(r)
        BY <2>0, <3>1, <3>2 DEF Accounted
      <3> QED BY <2>a, <3>1, <3>3
    <2>5. CASE Disconnect(c)
      <3> DEFINE r == [IdleCheck EXCEPT !.pc = "gone"]
      <3>1. chk' = [chk EXCEPT ![c] = r] /\ Accounted(r)
        BY <2>5 DEF Disconnect, Accounted, IdleCheck
      <3> QED BY <2>a, <3>1
    <2>6. CASE \/ \E found \in BOOLEAN : ApplyFinding(c, found)
               \/ \E reachable, auto \in BOOLEAN : ApplyPing(c, reachable, auto)
               \/ ApplyError(c)
      BY <2>b, <2>6 DEF ApplyFinding, ApplyPing, ApplyError
    <2> QED BY <1>1, <2>1, <2>2, <2>3, <2>4, <2>5, <2>6 DEF CheckStart, CheckStep
  <1>2. ApiStep => UNCHANGED chk
    BY ApiType DEF Typed
  <1>3. ASSUME NEW j \in Jobs, JobStep(j) \/ \E feed \in SUBSET IPs : StartJob(j, feed)
        PROVE  UNCHANGED chk
    BY <1>3, JobType
  <1> QED BY <1>0, <1>1, <1>2, <1>3 DEF Next, Step, NextNight, vars

\* However many ids a bulk check is given and whichever of them are gone, its
\* summary accounts for each (routers/ip_records.py).
THEOREM BatchesAccounted == Spec => []BatchAccounted
  <1>1. Init => BatchAccounted
    BY DEF Init, BatchAccounted, IdleCheck
  <1> QED BY <1>1, TypedInit, TypedStep, BatchStep, PTL DEF Spec

-----------------------------------------------------------------------------
(* The lock of a nightly job: it does its work for any number of runs and  *)
(* any limit, if runs start apart and each ends before its lock is stale.  *)

\* What the script takes for granted.
Prompt == Apart /\ MaxRun <= MaxAge

\* A run past the test, and a run at the lock at all, is alone there.
NobodyWorks == (\E r \in Runs : run[r].pc \in {"remove", "touch"}) => Working = {}
AloneAtLock == \A r, s \in AtLock : r = s
InTime == \A r \in Working : run[r].for <= MaxRun

LockIInv ==
    LockTypeOK /\ OneAtATime /\ LockIsItsOwn /\ NobodyWorks /\ AloneAtLock /\ InTime

LEMMA LockInitially == LockInit => LockIInv
  BY JobLockAssumption
  DEF LockInit, LockIInv, LockTypeOK, OneAtATime, LockIsItsOwn, NobodyWorks, AloneAtLock, InTime,
      Working, AtLock, Rest

LEMMA StartKeeps ==
    ASSUME Prompt, LockIInv, NEW r \in Runs, Start(r)
    PROVE  LockIInv'
  <1>1. LockTypeOK'
    BY DEF Start, LockIInv, LockTypeOK, Goto
  <1>2. OneAtATime' /\ LockIsItsOwn' /\ InTime'
    BY DEF Start, LockIInv, LockTypeOK, OneAtATime, LockIsItsOwn, InTime, Working, Goto
  <1>3. NobodyWorks'
    BY DEF Start, LockIInv, LockTypeOK, NobodyWorks, LockIsItsOwn, Working, AtLock, Goto, Prompt
  <1>4. AloneAtLock'
    BY DEF Start, LockIInv, LockTypeOK, AloneAtLock, AtLock, Goto, Prompt
  <1> QED BY <1>1, <1>2, <1>3, <1>4 DEF LockIInv

\* A run gets past the test only by a lock that is stale, and the lock of a
\* working run is not.
LEMMA StatKeeps ==
    ASSUME Prompt, LockIInv, NEW r \in Runs, Stat(r)
    PROVE  LockIInv'
  <1>1. LockTypeOK'
    BY JobLockAssumption DEF Stat, LockIInv, LockTypeOK, Goto, Finish, Rest
  <1>2. OneAtATime' /\ LockIsItsOwn' /\ InTime'
    BY DEF Stat, LockIInv, LockTypeOK, OneAtATime, LockIsItsOwn, InTime, Working, Goto, Finish, Rest
  <1>3. lock.age > MaxAge => Working = {}
    BY JobLockAssumption DEF LockIInv, LockTypeOK, LockIsItsOwn, InTime, Working, Prompt
  <1>4. NobodyWorks'
    BY <1>3 DEF Stat, LockIInv, LockTypeOK, NobodyWorks, Working, Goto, Finish, Rest
  <1>5. AloneAtLock'
    BY DEF Stat, LockIInv, LockTypeOK, AloneAtLock, AtLock, Goto, Finish, Rest
  <1> QED BY <1>1, <1>2, <1>4, <1>5 DEF LockIInv

LEMMA RemoveKeeps ==
    ASSUME LockIInv, NEW r \in Runs, Remove(r)
    PROVE  LockIInv'
  <1>1. LockTypeOK'
    BY DEF Remove, LockIInv, LockTypeOK, Goto
  <1>2. Working = {} /\ Working' = {}
    BY DEF Remove, LockIInv, LockTypeOK, NobodyWorks, Working, Goto
  <1>3. OneAtATime' /\ LockIsItsOwn' /\ InTime' /\ NobodyWorks'
    BY <1>2 DEF OneAtATime, LockIsItsOwn, InTime, NobodyWorks
  <1>4. AloneAtLock'
    BY DEF Remove, LockIInv, LockTypeOK, AloneAtLock, AtLock, Goto
  <1> QED BY <1>1, <1>3, <1>4 DEF LockIInv

LEMMA TouchKeeps ==
    ASSUME LockIInv, NEW r \in Runs, Touch(r)
    PROVE  LockIInv'
  <1>1. LockTypeOK'
    BY JobLockAssumption DEF Touch, LockIInv, LockTypeOK
  <1>2. Working = {} /\ AtLock = {r}
    BY DEF Touch, LockIInv, NobodyWorks, AloneAtLock, AtLock
  <1>3. Working' = {r} /\ AtLock' = {} /\ run'[r].for = 0
    BY <1>2 DEF Touch, LockIInv, LockTypeOK, Working, AtLock
  <1>4. OneAtATime' /\ LockIsItsOwn' /\ InTime'
    BY <1>3, JobLockAssumption DEF Touch, OneAtATime, LockIsItsOwn, InTime
  <1>5. NobodyWorks' /\ AloneAtLock'
    BY <1>3 DEF NobodyWorks, AloneAtLock, AtLock
  <1> QED BY <1>1, <1>4, <1>5 DEF LockIInv

LEMMA EndKeeps ==
    ASSUME LockIInv, NEW r \in Runs, End(r)
    PROVE  LockIInv'
  <1>1. LockTypeOK'
    <2>1. Rest \in [pc : {"idle", "stat", "remove", "touch", "working"}, for : 0 .. (MaxAge + 1)]
      BY JobLockAssumption DEF Rest
    <2>2. lock' \in [there : BOOLEAN, age : 0 .. (MaxAge + 1)]
      BY DEF End, LockIInv, LockTypeOK
    <2> QED BY <2>1, <2>2 DEF End, LockIInv, LockTypeOK, Finish
  <1>2. Working' = {}
    BY DEF End, LockIInv, LockTypeOK, OneAtATime, Working, Finish, Rest
  <1>3. OneAtATime' /\ LockIsItsOwn' /\ InTime' /\ NobodyWorks'
    BY <1>2 DEF OneAtATime, LockIsItsOwn, InTime, NobodyWorks
  <1>4. AloneAtLock'
    BY DEF End, LockIInv, LockTypeOK, AloneAtLock, AtLock, Finish, Rest
  <1> QED BY <1>1, <1>3, <1>4 DEF LockIInv

LEMMA KillKeeps ==
    ASSUME LockIInv, NEW r \in Runs, Kill(r)
    PROVE  LockIInv'
  <1>1. LockTypeOK'
    BY JobLockAssumption DEF Kill, LockIInv, LockTypeOK, Finish, Rest
  <1>2. OneAtATime' /\ LockIsItsOwn' /\ InTime'
    BY DEF Kill, LockIInv, LockTypeOK, OneAtATime, LockIsItsOwn, InTime, Working, Finish, Rest
  <1>3. NobodyWorks' /\ AloneAtLock'
    BY DEF Kill, LockIInv, LockTypeOK, NobodyWorks, AloneAtLock, Working, AtLock, Finish, Rest
  <1> QED BY <1>1, <1>2, <1>3 DEF LockIInv

\* The file and the run that works grow old together.
LEMMA TickKeeps ==
    ASSUME LockIInv, Tick
    PROVE  LockIInv'
  <1>1. \A n \in 0 .. (MaxAge + 1) : Older(n) \in 0 .. (MaxAge + 1)
    BY JobLockAssumption DEF Older
  <1>2. /\ \A r \in Runs : run[r].for \in 0 .. (MaxAge + 1)
        /\ lock.age \in 0 .. (MaxAge + 1)
    BY DEF LockIInv, LockTypeOK
  <1>3. LockTypeOK'
    BY <1>1, <1>2 DEF Tick, LockIInv, LockTypeOK
  <1>4. Working' = Working /\ AtLock' = AtLock
    BY DEF Tick, LockIInv, LockTypeOK, Working, AtLock
  <1>5. \A r \in Working : run'[r].for = Older(run[r].for) /\ lock'.age = Older(lock.age)
    BY DEF Tick, LockIInv, LockTypeOK, Working
  <1>6. OneAtATime' /\ AloneAtLock'
    BY <1>4 DEF LockIInv, OneAtATime, AloneAtLock
  <1>7. LockIsItsOwn'
    BY <1>4, <1>5 DEF LockIInv, LockTypeOK, LockIsItsOwn, Tick
  <1>8. InTime'
    <2> SUFFICES ASSUME NEW r \in Working PROVE run'[r].for <= MaxRun
      BY <1>4 DEF InTime
    <2>1. run[r].for < MaxRun /\ run[r].for \in Nat
      BY <1>2 DEF Tick, Working
    <2> QED BY <1>5, <2>1, JobLockAssumption DEF Older, LockIInv, InTime
  <1>9. NobodyWorks'
    BY <1>4 DEF Tick, LockIInv, LockTypeOK, NobodyWorks, Working
  <1> QED BY <1>3, <1>6, <1>7, <1>8, <1>9 DEF LockIInv

\* The invariant is inductive when runs are apart and prompt.
THEOREM LockInductive == ASSUME Prompt PROVE LockSpec => []LockIInv
  <1>1. ASSUME LockIInv, [LockNext]_lockVars PROVE LockIInv'
    <2>1. ASSUME NEW r \in Runs, Start(r) \/ ScriptStep(r) \/ Kill(r) PROVE LockIInv'
      BY <1>1, <2>1, StartKeeps, StatKeeps, RemoveKeeps, TouchKeeps, EndKeeps, KillKeeps
      DEF ScriptStep
    <2>2. CASE UNCHANGED lockVars
      BY <1>1, <2>2 DEF lockVars, LockIInv, LockTypeOK, OneAtATime, LockIsItsOwn, NobodyWorks,
                        AloneAtLock, InTime, Working, AtLock
    <2> QED BY <1>1, <2>1, <2>2, TickKeeps DEF LockNext
  <1> QED BY <1>1, LockInitially, PTL DEF LockSpec

\* One run works at a time, whatever is killed, if runs start apart and end
\* before their lock is stale.
THEOREM AloneAtWork == ASSUME Prompt PROVE LockSpec => []OneAtATime
  <1>1. LockIInv => OneAtATime
    BY DEF LockIInv
  <1> QED BY <1>1, LockInductive, PTL

\* Under the same conditions nobody else removes or renews the lock of a run.
THEOREM OwnLock == ASSUME Prompt PROVE LockSpec => []LockIsItsOwn
  <1>1. LockIInv => LockIsItsOwn
    BY DEF LockIInv
  <1> QED BY <1>1, LockInductive, PTL
=============================================================================
