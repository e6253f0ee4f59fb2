-------------------------------- MODULE JobLock --------------------------------
(***************************************************************************)
(* The lock file of a nightly job (scripts/run_*_sync.sh, and the same in  *)
(* run_build_embeddings, run_anomaly_digest and run_file_cleanup).         *)
(*                                                                         *)
(* A run looks whether the file is there, reads its age, removes it when   *)
(* it is too old, makes it and goes to work; whatever way it ends, its     *)
(* EXIT trap removes the file.  Only a run that is killed outright, with   *)
(* the host, leaves the file behind.                                       *)
(***************************************************************************)
EXTENDS Naturals, FiniteSets

CONSTANTS
    Runs,       \* bound: runs of the job that are there at the same time
    MaxAge,     \* LOCK_MAX_AGE_SECONDS
    MaxRun,     \* a run takes no longer than this
    Apart,      \* whether a run starts only when no other is at its lock
    MaxKills    \* bound: how often a run is killed

ASSUME JobLockAssumption ==
    /\ MaxAge \in Nat /\ MaxRun \in Nat /\ MaxKills \in Nat
    /\ Apart \in BOOLEAN

VARIABLES
    lock,    \* whether the file is there, and its age: ages beyond MaxAge are one
    run,     \* run -> where it is in the script, and for how long it has worked
    kills

lockVars == <<lock, run, kills>>

-----------------------------------------------------------------------------

Older(n) == IF n > MaxAge THEN n ELSE n + 1

AtLock  == {r \in Runs : run[r].pc \in {"stat", "remove", "touch"}}
Working == {r \in Runs : run[r].pc = "working"}

Rest == [pc |-> "idle", for |-> 0]

LockInit ==
    /\ lock = [there |-> FALSE, age |-> 0]
    /\ run = [r \in Runs |-> Rest]
    /\ kills = 0

Goto(r, pc) == run' = [run EXCEPT ![r].pc = pc]
Finish(r) == run' = [run EXCEPT ![r] = Rest]

\* cron, or somebody at the host: [ -e "$LOCKFILE" ].
Start(r) ==
    /\ run[r].pc = "idle"
    /\ Apart => AtLock = {}
    /\ Goto(r, IF lock.there THEN "stat" ELSE "touch")
    /\ UNCHANGED <<lock, kills>>

\* Broken variant: whatever its age, the file is taken for the lock of a run.
StatNeverStale(r) ==
    /\ run[r].pc = "stat"
    /\ Finish(r)
    /\ UNCHANGED <<lock, kills>>

\* The age of the file: too old, and it is removed; not, and the run is skipped.
\* If the file has gone in the meantime stat fails, and the script with it.
Stat(r) ==
    /\ run[r].pc = "stat"
    /\ IF lock.there /\ lock.age > MaxAge THEN Goto(r, "remove") ELSE Finish(r)
    /\ UNCHANGED <<lock, kills>>

\* rm -f
Remove(r) ==
    /\ run[r].pc = "remove"
    /\ lock' = [lock EXCEPT !.there = FALSE]
    /\ Goto(r, "touch")
    /\ UNCHANGED kills

\* Broken variant: no file is made.
TouchNothing(r) ==
    /\ run[r].pc = "touch"
    /\ run' = [run EXCEPT ![r] = [pc |-> "working", for |-> 0]]
    /\ UNCHANGED <<lock, kills>>

\* touch makes the file, or makes it young again; then the trap, and the job.
Touch(r) ==
    /\ run[r].pc = "touch"
    /\ lock' = [there |-> TRUE, age |-> 0]
    /\ run' = [run EXCEPT ![r] = [pc |-> "working", for |-> 0]]
    /\ UNCHANGED kills

\* The job ends, well or not: the trap removes the file, whoever made it.
End(r) ==
    /\ run[r].pc = "working"
    /\ lock' = [lock EXCEPT !.there = FALSE]
    /\ Finish(r)
    /\ UNCHANGED kills

\* The host crashes, or the run is killed, and no trap is run.
Kill(r) ==
    /\ kills < MaxKills
    /\ run[r].pc # "idle"
    /\ Finish(r)
    /\ kills' = kills + 1
    /\ UNCHANGED lock

\* Time goes by; a run ends before its time is over.
Tick ==
    /\ \A r \in Working : run[r].for < MaxRun
    /\ lock' = [lock EXCEPT !.age = Older(@)]
    /\ run' = [r \in Runs |-> IF r \in Working THEN [run[r] EXCEPT !.for = Older(@)] ELSE run[r]]
    /\ UNCHANGED kills

ScriptStep(r) == Stat(r) \/ Remove(r) \/ Touch(r) \/ End(r)

LockNext == (\E r \in Runs : Start(r) \/ ScriptStep(r) \/ Kill(r)) \/ Tick

LockSpec == LockInit /\ [][LockNext]_lockVars

\* Time goes by, cron starts a run again and again, and a script goes on.
FairLockSpec ==
    /\ LockSpec
    /\ WF_lockVars(Tick)
    /\ WF_lockVars(\E r \in Runs : Start(r))
    /\ \A r \in Runs : WF_lockVars(ScriptStep(r))

-----------------------------------------------------------------------------
(* Properties *)

\* The types of the lock file and of the runs.
LockTypeOK ==
    /\ lock \in [there : BOOLEAN, age : 0 .. (MaxAge + 1)]
    /\ run \in [Runs -> [pc : {"idle", "stat", "remove", "touch", "working"},
                         for : 0 .. (MaxAge + 1)]]
    /\ kills \in 0 .. MaxKills

\* However runs start, end and are killed, one of them works at a time: the
\* others find the file and are skipped ("Previous sync still running").
OneAtATime == \A r, s \in Working : r = s

\* While a run works its file is there, and as old as the run.
LockIsItsOwn == \A r \in Working : lock.there /\ lock.age = run[r].for

\* Whatever was killed, and whenever, the job runs again: a lock that was left
\* behind does not block every later run (README, nightly synchronisation).
RunsAgain == []<>(Working # {})

=============================================================================
