------------------------------ MODULE IPRecords ------------------------------
(***************************************************************************)
(* The life of an IP record in the ip_records collection and the programs  *)
(* that write it:                                                          *)
(*                                                                         *)
(*   - the API handlers (create, CSV import, edit, delete, reserve,        *)
(*     release and the bulk operations);                                   *)
(*   - the availability checks, which read a record, probe four external   *)
(*     sources while other requests run, and then write what they found    *)
(*     to the record they read;                                            *)
(*   - the nightly jobs, which are separate processes: for every address   *)
(*     of their feed they look the record up and then write it.            *)
(*                                                                         *)
(* One MongoDB operation on one document is atomic; there are no           *)
(* transactions.  An await between two operations is a point where any     *)
(* other actor may run, so a program that reads and then writes is two     *)
(* actions here.                                                           *)
(***************************************************************************)
EXTENDS Naturals, Sequences

CONSTANTS
    Ids,        \* document ids; an id is never used twice
    IPs,        \* addresses
    Vrfs,       \* routing tables
    Global,     \* vrf_id None, the global scope
    Users,      \* names that may appear in reserved_by
    NoUser,     \* reserved_by None
    NoId,       \* "no record was found"
    NoIP,       \* no address
    Checks,     \* availability-check requests
    Device42,   \* the nightly job that writes Free or In Use
    Upgraders,  \* the nightly jobs that write In Use only
    MaxBatch    \* bound: ids in one bulk check

Jobs    == {Device42} \union Upgraders
Workers == Checks \union Jobs
Scopes  == Vrfs \union {Global}

ASSUME IPRecordsAssumption ==
    /\ NoId \notin Ids
    /\ NoUser \notin Users
    /\ NoIP \notin IPs
    /\ Global \notin Vrfs
    /\ Device42 \notin Upgraders
    /\ Checks \intersect Jobs = {}
    /\ MaxBatch \in Nat \ {0}

VARIABLES
    recs,    \* the collection: id -> document
    chk,     \* the check requests in flight
    jobs,    \* the nightly jobs
    racers   \* history variable, no code counterpart: the workers that had
             \* read the record before it was last reserved and have not
             \* finished with it yet

vars == <<recs, chk, jobs, racers>>

-----------------------------------------------------------------------------
(* Documents *)

Status  == {"Free", "Reserved", "In Use"}
Missing == {"unborn", "deleted"}

Record == [ip: IPs \union {NoIP}, vrf: Scopes, status: Status \union Missing,
           holder: Users \union {NoUser}]

Blank(s) == [ip |-> NoIP, vrf |-> Global, status |-> s,
             holder |-> NoUser]

Live(id) == recs[id].status \in Status

\* The unique index on (vrf_id, ip_address) lets a document with this key be
\* written as id.
KeyFree(id, ip, vrf) ==
    \A o \in Ids \ {id} : Live(o) => ~(recs[o].ip = ip /\ recs[o].vrf = vrf)

Insert(id, ip, vrf, st) ==
    /\ recs[id].status = "unborn"
    /\ KeyFree(id, ip, vrf)
    /\ recs' = [recs EXCEPT ![id] =
                  [ip |-> ip, vrf |-> vrf, status |-> st,
                   holder |-> NoUser]]

\* $set of the status; nothing happens to a document that is gone.
SetStatus(id, st) ==
    recs' = IF Live(id)
            THEN [recs EXCEPT ![id].status = st]
            ELSE recs

-----------------------------------------------------------------------------
(* Workers between their read and their write *)

IdleCheck == [pc |-> "idle", kind |-> "combined", todo |-> <<>>, cur |-> NoId,
              snap |-> "unborn", total |-> 0, scanned |-> 0, errors |-> 0]
IdleJob   == [pc |-> "idle", todo |-> {}, ip |-> NoIP, cur |-> NoId,
              snap |-> "unborn"]

\* A worker holds a record between the read of it and the write to it.
Cur(w)      == IF w \in Checks THEN chk[w].cur ELSE jobs[w].cur
Snap(w)     == IF w \in Checks THEN chk[w].snap ELSE jobs[w].snap
Holds(w, id) == Cur(w) = id

Init ==
    /\ recs = [id \in Ids |-> Blank("unborn")]
    /\ chk = [c \in Checks |-> IdleCheck]
    /\ jobs = [j \in Jobs |-> IdleJob]
    /\ racers = [id \in Ids |-> {}]

-----------------------------------------------------------------------------
(* API handlers.  The record they read first only decides between 404 and  *)
(* going on, and fills the audit entry; the write is one operation.        *)

\* POST /ip-records.  Whether the VRF-scoped uniqueness query runs
\* (enforce_unique) or not, the unique index decides: the query only turns a
\* duplicate-key error into a 409.
Create(id, ip, vrf, st) ==
    /\ Insert(id, ip, vrf, st)
    /\ UNCHANGED <<chk, jobs>>

\* One row of POST /ip-records/import: the document has no vrf_id, and the
\* duplicate query looks in every scope.
ImportRow(id, ip, st) ==
    /\ \A o \in Ids : Live(o) => recs[o].ip # ip
    /\ Insert(id, ip, Global, st)
    /\ UNCHANGED <<chk, jobs>>

\* PUT and PATCH: a blind $set of the fields given, status among them;
\* reserved_by stays as it is.
Update(id, st) ==
    /\ Live(id)
    /\ SetStatus(id, st)
    /\ UNCHANGED <<chk, jobs>>

Delete(id) ==
    /\ Live(id)
    /\ recs' = [recs EXCEPT ![id] = Blank("deleted")]
    /\ UNCHANGED <<chk, jobs>>

\* Conditional update on status Free; anything else is answered 409.
Reserve(id, u) ==
    /\ recs[id].status = "Free"
    /\ recs' = [recs EXCEPT ![id].status = "Reserved", ![id].holder = u]
    /\ UNCHANGED <<chk, jobs>>

Release(id) ==
    /\ recs[id].status = "Reserved"
    /\ recs' = [recs EXCEPT ![id].status = "Free", ![id].holder = NoUser]
    /\ UNCHANGED <<chk, jobs>>

\* POST /bulk/reserve and /bulk/release: update_many of the status alone,
\* whatever the status was and whoever holds the record.  (POST /bulk/update
\* sets descriptive fields only.)
BulkUpdateStatus(S, st) ==
    /\ recs' = [id \in Ids |->
                  IF id \in S /\ Live(id)
                  THEN [recs[id] EXCEPT !.status = st]
                  ELSE recs[id]]
    /\ UNCHANGED <<chk, jobs>>

-----------------------------------------------------------------------------
(* Availability checks *)

\* /{id}/ping and /{id}/check-availability-stream read the record while the
\* request is handled and answer 404 if it is missing.
StartCheck(c, kind, id) ==
    /\ chk[c].pc = "idle"
    /\ Live(id)
    /\ chk' = [chk EXCEPT ![c] =
                 [IdleCheck EXCEPT !.pc = "probe", !.kind = kind, !.cur = id,
                                   !.snap = recs[id].status, !.total = 1]]
    /\ UNCHANGED <<recs, jobs>>

\* /bulk/check-availability-stream walks the list of ids it was given.
StartBulk(c, ids) ==
    /\ chk[c].pc = "idle"
    /\ chk' = [chk EXCEPT ![c] =
                 [IdleCheck EXCEPT !.pc = "next", !.todo = ids,
                                   !.total = Len(ids)]]
    /\ UNCHANGED <<recs, jobs>>

\* Broken variant: a record that is gone is skipped without being counted.
NextOfBulkUncounted(c) ==
    /\ chk[c].pc = "next"
    /\ chk[c].todo # <<>>
    /\ LET id == Head(chk[c].todo) IN
         chk' = [chk EXCEPT ![c] =
                   IF Live(id)
                   THEN [@ EXCEPT !.pc = "probe", !.todo = Tail(chk[c].todo),
                                  !.cur = id, !.snap = recs[id].status]
                   ELSE [@ EXCEPT !.todo = Tail(chk[c].todo)]]
    /\ UNCHANGED <<recs, jobs>>

\* Broken variant: the loop retries a record that is gone instead of skipping it.
NextOfBulkRetries(c) ==
    /\ chk[c].pc = "next"
    /\ chk[c].todo # <<>>
    /\ LET id == Head(chk[c].todo) IN
         /\ Live(id)
         /\ chk' = [chk EXCEPT ![c] =
                      [@ EXCEPT !.pc = "probe", !.todo = Tail(chk[c].todo),
                                !.cur = id, !.snap = recs[id].status]]
    /\ UNCHANGED <<recs, jobs>>

\* The next id of a bulk check.  An id whose read raised, because the record is
\* gone or the database did not answer, is reported and skipped.
NextOfBulk(c) ==
    /\ chk[c].pc = "next"
    /\ chk[c].todo # <<>>
    /\ LET id == Head(chk[c].todo) IN
         \/ /\ Live(id)
            /\ chk' = [chk EXCEPT ![c] =
                         [@ EXCEPT !.pc = "probe", !.todo = Tail(chk[c].todo),
                                   !.cur = id, !.snap = recs[id].status]]
         \/ chk' = [chk EXCEPT ![c] =
                      [@ EXCEPT !.todo = Tail(chk[c].todo),
                                !.errors = chk[c].errors + 1]]
    /\ UNCHANGED <<recs, jobs>>

\* The check leaves its current record and counts it as scanned or as an error.
Leave(c, ok) ==
    chk' = [chk EXCEPT ![c] =
              [@ EXCEPT !.pc = "next", !.cur = NoId, !.snap = "unborn",
                        !.scanned = chk[c].scanned + (IF ok THEN 1 ELSE 0),
                        !.errors = chk[c].errors + (IF ok THEN 0 ELSE 1)]]

\* What a positive finding does to the status: nothing if the record WAS, when
\* it was read, Reserved or In Use already.
Upgrade(id, snap) ==
    IF snap \in {"Reserved", "In Use"}
    THEN SetStatus(id, recs[id].status)
    ELSE SetStatus(id, "In Use")

\* _apply_combined_check and _apply_paloalto_enrichment: any positive finding
\* upgrades, no finding leaves the record alone.  found is the merged verdict
\* of the sources with auto_update on; a machine that is powered off does not
\* count in it.
ApplyFinding(c, found) ==
    /\ chk[c].pc = "probe"
    /\ chk[c].kind = "combined"
    /\ IF found THEN Upgrade(chk[c].cur, chk[c].snap) ELSE UNCHANGED recs
    /\ Leave(c, TRUE)
    /\ UNCHANGED jobs

\* Broken variant: a ping without an answer releases a Reserved record.
ApplyPingReleases(c, reachable, auto) ==
    /\ chk[c].pc = "probe"
    /\ chk[c].kind = "ping"
    /\ LET target == IF reachable THEN "In Use" ELSE "Free" IN
         IF ~auto \/ chk[c].snap = target
         THEN UNCHANGED recs
         ELSE SetStatus(chk[c].cur, target)
    /\ Leave(c, TRUE)
    /\ UNCHANGED jobs

\* _apply_ping_status: In Use if reachable, Free if not, unless the record
\* already was what it should become or was Reserved and did not answer.
\* auto is auto_update; a Device42 or Zabbix miss counts as auto_update off.
ApplyPing(c, reachable, auto) ==
    /\ chk[c].pc = "probe"
    /\ chk[c].kind = "ping"
    /\ LET target == IF reachable THEN "In Use" ELSE "Free" IN
         IF \/ ~auto
            \/ chk[c].snap = target
            \/ chk[c].snap = "Reserved" /\ target = "Free"
         THEN UNCHANGED recs
         ELSE SetStatus(chk[c].cur, target)
    /\ Leave(c, TRUE)
    /\ UNCHANGED jobs

\* The apply raised, for instance because the database did not answer: an
\* error event, and the batch goes on.
ApplyError(c) ==
    /\ chk[c].pc = "probe"
    /\ Leave(c, FALSE)
    /\ UNCHANGED <<recs, jobs>>

\* Summary and end of the response.
FinishCheck(c) ==
    /\ chk[c].pc = "next"
    /\ chk[c].todo = <<>>
    /\ chk' = [chk EXCEPT ![c].pc = "done"]
    /\ UNCHANGED <<recs, jobs>>

\* The client goes away: the stream's generator is closed where it stands.
Disconnect(c) ==
    /\ chk[c].pc \in {"next", "probe"}
    /\ chk' = [chk EXCEPT ![c] = [IdleCheck EXCEPT !.pc = "gone"]]
    /\ UNCHANGED <<recs, jobs>>

-----------------------------------------------------------------------------
(* Nightly jobs *)

\* cron starts Device42 first (2:00) and the others after it; that an earlier
\* job has ended by then is not checked anywhere.
StartJob(j, feed) ==
    /\ jobs[j].pc = "idle"
    /\ j # Device42 => jobs[Device42].pc # "idle"
    /\ jobs' = [jobs EXCEPT ![j] = [IdleJob EXCEPT !.pc = "read", !.todo = feed]]
    /\ UNCHANGED <<recs, chk>>

\* find_by_ip of the next address: the first record with it in any scope.
SyncRead(j, ip) ==
    /\ jobs[j].pc = "read"
    /\ ip \in jobs[j].todo
    /\ LET found == {id \in Ids : Live(id) /\ recs[id].ip = ip} IN
         \/ /\ found = {}
            /\ jobs' = [jobs EXCEPT ![j] = [@ EXCEPT !.pc = "insert", !.ip = ip]]
         \/ \E id \in found :
              jobs' = [jobs EXCEPT ![j] =
                         [@ EXCEPT !.pc = "update", !.ip = ip, !.cur = id,
                                   !.snap = recs[id].status]]
    /\ UNCHANGED <<recs, chk>>

\* On to the next address of the feed.
SyncNext(j) ==
    jobs' = [jobs EXCEPT ![j] =
               [@ EXCEPT !.pc = "read", !.todo = jobs[j].todo \ {jobs[j].ip},
                         !.ip = NoIP, !.cur = NoId, !.snap = "unborn"]]

Verdicts(j) == IF j = Device42 THEN {"Free", "In Use"} ELSE {"In Use"}

\* Broken variant: the job sets the status whatever it was.
SyncUpdateClobber(j, st) ==
    /\ jobs[j].pc = "update"
    /\ LET id == jobs[j].cur IN
         IF Live(id) /\ KeyFree(id, recs[id].ip, Global)
         THEN recs' = [recs EXCEPT ![id].vrf = Global,
                                   ![id].status = st]
         ELSE UNCHANGED recs
    /\ SyncNext(j)
    /\ UNCHANGED chk

\* $set with vrf_id None, and with the status unless the record that was read
\* was Reserved.
SyncUpdate(j, st) ==
    /\ jobs[j].pc = "update"
    /\ LET id == jobs[j].cur IN
         IF Live(id) /\ KeyFree(id, recs[id].ip, Global)
         THEN recs' = [recs EXCEPT
                 ![id].vrf = Global,
                 ![id].status = IF jobs[j].snap # "Reserved" THEN st ELSE @]
         ELSE UNCHANGED recs   \* gone, or a duplicate-key error: counted
    /\ SyncNext(j)
    /\ UNCHANGED chk

\* The record the job creates when it found none.
SyncInsert(j, id, st) ==
    /\ jobs[j].pc = "insert"
    /\ Insert(id, jobs[j].ip, Global, st)
    /\ SyncNext(j)
    /\ UNCHANGED chk

\* Somebody created it meanwhile: a duplicate-key error, counted.
SyncInsertFails(j) ==
    /\ jobs[j].pc = "insert"
    /\ \E o \in Ids : Live(o) /\ recs[o].ip = jobs[j].ip /\ recs[o].vrf = Global
    /\ SyncNext(j)
    /\ UNCHANGED <<recs, chk>>

\* The feed is exhausted, or the run fails half way (an upstream error, the
\* container restarted): what is written stays written.
EndJob(j) ==
    /\ jobs[j].pc \in {"read", "update", "insert"}
    /\ jobs' = [jobs EXCEPT ![j] = [IdleJob EXCEPT !.pc = "done"]]
    /\ UNCHANGED <<recs, chk>>

NextNight ==
    /\ \A j \in Jobs : jobs[j].pc = "done"
    /\ jobs' = [j \in Jobs |-> IdleJob]
    /\ UNCHANGED <<recs, chk>>

-----------------------------------------------------------------------------

ApiStep ==
    \/ \E id \in Ids, ip \in IPs, vrf \in Scopes, st \in Status :
         Create(id, ip, vrf, st)
    \/ \E id \in Ids, ip \in IPs, st \in Status : ImportRow(id, ip, st)
    \/ \E id \in Ids, st \in Status : Update(id, st)
    \/ \E id \in Ids : Delete(id)
    \/ \E id \in Ids, u \in Users : Reserve(id, u)
    \/ \E id \in Ids : Release(id)
    \/ \E S \in SUBSET Ids, st \in {"Reserved", "Free"} : BulkUpdateStatus(S, st)

BatchesOf(n) == [1..n -> Ids]

CheckStart(c) ==
    \/ \E id \in Ids, kind \in {"combined", "ping"} : StartCheck(c, kind, id)
    \/ \E n \in 1..MaxBatch : \E ids \in BatchesOf(n) : StartBulk(c, ids)

CheckStep(c) ==
    \/ NextOfBulk(c)
    \/ \E found \in BOOLEAN : ApplyFinding(c, found)
    \/ \E reachable, auto \in BOOLEAN : ApplyPing(c, reachable, auto)
    \/ ApplyError(c)
    \/ FinishCheck(c)

JobStep(j) ==
    \/ \E ip \in IPs : SyncRead(j, ip)
    \/ \E st \in Verdicts(j) : SyncUpdate(j, st)
    \/ \E st \in Verdicts(j), id \in Ids : SyncInsert(j, id, st)
    \/ SyncInsertFails(j)
    \/ EndJob(j)

Step ==
    \/ ApiStep
    \/ \E c \in Checks : CheckStart(c) \/ CheckStep(c) \/ Disconnect(c)
    \/ \E j \in Jobs : JobStep(j) \/ \E feed \in SUBSET IPs : StartJob(j, feed)
    \/ NextNight

\* A record becomes Reserved: every worker that holds it read it before.
TrackRacers ==
    racers' = [id \in Ids |->
        IF recs'[id].status = "Reserved" /\ recs[id].status # "Reserved"
        THEN {w \in Workers : Holds(w, id)}
        ELSE {w \in racers[id] : Holds(w, id)'}]

Next == Step /\ TrackRacers

Spec == Init /\ [][Next]_vars

\* The event loop runs every handler that can run, and every probe has a
\* timeout; nobody has to send a request or to stay connected.
FairSpec == Spec /\ \A c \in Checks : WF_vars(CheckStep(c) /\ TrackRacers)

-----------------------------------------------------------------------------
(* Properties *)

CheckState ==
    [pc: {"idle", "next", "probe", "done", "gone"}, kind: {"combined", "ping"},
     todo: Seq(Ids), cur: Ids \union {NoId}, snap: Status \union Missing,
     total: Nat, scanned: Nat, errors: Nat]

JobState ==
    [pc: {"idle", "read", "update", "insert", "done"}, todo: SUBSET IPs,
     ip: IPs \union {NoIP}, cur: Ids \union {NoId}, snap: Status \union Missing]

TypeOK ==
    /\ recs \in [Ids -> Record]
    /\ chk \in [Checks -> CheckState]
    /\ jobs \in [Jobs -> JobState]
    /\ racers \in [Ids -> SUBSET Workers]

\* No two records have the same address in the same scope, although records
\* are created from four places and a nightly job moves a record from its VRF
\* to the global scope.
UniqueKey ==
    \A a, b \in Ids :
        a # b /\ Live(a) /\ Live(b) => <<recs[a].ip, recs[a].vrf>> # <<recs[b].ip, recs[b].vrf>>

\* A worker that holds a Reserved record it did not see as Reserved is a racer:
\* the record was reserved after the worker had read it.
StaleOnlyIfRacing ==
    \A w \in Workers, id \in Ids :
        Holds(w, id) /\ recs[id].status = "Reserved" /\ Snap(w) # "Reserved"
            => w \in racers[id]

\* Every id of a bulk check is accounted for once: still to come, being
\* probed, scanned or reported as an error.
BatchAccounted ==
    \A c \in Checks :
        chk[c].pc \in {"next", "probe", "done"} =>
            chk[c].total = Len(chk[c].todo) + chk[c].scanned + chk[c].errors
                           + (IF chk[c].pc = "probe" THEN 1 ELSE 0)

\* A check or a nightly job takes a record out of Reserved only if the
\* reservation was made after it had read the record; the one intended
\* exception is a ping that got an answer.
ReservedLostOnlyToRacer ==
    [][\A w \in Workers, id \in Ids :
         /\ Holds(w, id) /\ ~Holds(w, id)'
         /\ recs[id].status = "Reserved" /\ recs'[id].status # "Reserved"
         => \/ w \in racers[id]
            \/ w \in Checks /\ chk[w].kind = "ping" /\ recs'[id].status = "In Use"]_vars

\* A check that is started ends, with every id accounted for, unless its
\* client leaves.
CheckEnds ==
    \A c \in Checks : chk[c].pc = "next" ~> chk[c].pc \in {"done", "gone"}

(* Claims of the documentation that the code does not keep. *)

\* "none touches a Reserved record": a nightly job that is done with a record
\* leaves its status alone if it is Reserved.
JobsLeaveReserved ==
    [][\A j \in Jobs, id \in Ids :
         Holds(j, id) /\ ~Holds(j, id)' /\ recs[id].status = "Reserved"
             => recs'[id].status = "Reserved"]_vars

==============================================================================
