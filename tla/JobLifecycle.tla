---------------------------- MODULE JobLifecycle ----------------------------
(***************************************************************************)
(* What the job board promises to the people who queue jobs and to the     *)
(* workers that run them, with nothing of how it is done: no leases, no    *)
(* clock, no row locks, no two-statement claim.                            *)
(*                                                                         *)
(* A job waits, is granted to one worker at a time, and ends once:        *)
(* finished with the result of the last of its grants, never with that of  *)
(* an earlier one, or given up after MaxAttempts grants that were neither  *)
(* finished nor parked.  Parking is not a failed try.                      *)
(*                                                                         *)
(* JobBoardRefinement shows that JobBoard implements this module.          *)
(***************************************************************************)
EXTENDS Naturals

CONSTANTS
    Jobs,         \* the jobs there may ever be
    MaxAttempts   \* unparked grants a job may use up

VARIABLES
    phase,    \* where each job is in its life
    spent,    \* grants used up: those that were not parked
    result    \* "none" yet, or that of the "last" of its grants

lifecycleVars == <<phase, spent, result>>

Init ==
    /\ phase = [j \in Jobs |-> "absent"]
    /\ spent = [j \in Jobs |-> 0]
    /\ result = [j \in Jobs |-> "none"]

Submit(j) ==
    /\ phase[j] = "absent"
    /\ phase' = [phase EXCEPT ![j] = "waiting"]
    /\ UNCHANGED <<spent, result>>

\* A waiting job is granted; a held one may be granted again, to somebody else.
Grant(j) ==
    /\ phase[j] \in {"waiting", "held"}
    /\ spent[j] < MaxAttempts
    /\ phase' = [phase EXCEPT ![j] = "held"]
    /\ spent' = [spent EXCEPT ![j] = @ + 1]
    /\ UNCHANGED result

Park(j) ==
    /\ phase[j] = "held"
    /\ phase' = [phase EXCEPT ![j] = "parked"]
    /\ spent' = [spent EXCEPT ![j] = @ - 1]
    /\ UNCHANGED result

Unpark(j) ==
    /\ phase[j] = "parked"
    /\ phase' = [phase EXCEPT ![j] = "waiting"]
    /\ UNCHANGED <<spent, result>>

Finish(j) ==
    /\ phase[j] = "held"
    /\ phase' = [phase EXCEPT ![j] = "finished"]
    /\ result' = [result EXCEPT ![j] = "last"]
    /\ UNCHANGED spent

\* Every job of S has used up its grants, and ends without a result.
GiveUp(S) ==
    /\ \A j \in S : phase[j] = "held" /\ spent[j] = MaxAttempts
    /\ phase' = [j \in Jobs |-> IF j \in S THEN "dead" ELSE phase[j]]
    /\ UNCHANGED <<spent, result>>

Next ==
    \/ \E j \in Jobs : Submit(j) \/ Grant(j) \/ Park(j) \/ Unpark(j) \/ Finish(j)
    \/ \E S \in SUBSET Jobs : GiveUp(S)

Spec == Init /\ [][Next]_lifecycleVars
=============================================================================
