------------------------------ MODULE UseBudget ------------------------------
(***************************************************************************)
(* What a share link promises, without requests, counters or documents: a  *)
(* link is opened once with a limit, is used while it is open and within   *)
(* its limit, and once it is closed it stays closed.  Limit 0 is no limit. *)
(***************************************************************************)
EXTENDS Naturals

CONSTANTS
    Links,
    Limits   \* the limits a link may be opened with, natural numbers

VARIABLES
    phase,   \* link -> "unborn", "open" or "closed"
    limit,   \* link -> how often it may be used
    uses     \* link -> how often it has been used

budget == <<phase, limit, uses>>

Init ==
    /\ phase = [l \in Links |-> "unborn"]
    /\ limit = [l \in Links |-> 0]
    /\ uses = [l \in Links |-> 0]

Open(l, n) ==
    /\ phase[l] = "unborn"
    /\ phase' = [phase EXCEPT ![l] = "open"]
    /\ limit' = [limit EXCEPT ![l] = n]
    /\ UNCHANGED uses

Use(l) ==
    /\ phase[l] = "open"
    /\ limit[l] = 0 \/ uses[l] < limit[l]
    /\ uses' = [uses EXCEPT ![l] = uses[l] + 1]
    /\ UNCHANGED <<phase, limit>>

Close(l) ==
    /\ phase[l] = "open"
    /\ phase' = [phase EXCEPT ![l] = "closed"]
    /\ UNCHANGED <<limit, uses>>

Next == \E l \in Links : Use(l) \/ Close(l) \/ \E n \in Limits : Open(l, n)

Spec == Init /\ [][Next]_budget

==============================================================================
