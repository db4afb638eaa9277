------------------------- MODULE JobBoardRefinement -------------------------
(***************************************************************************)
(* JobBoard implements JobLifecycle: a grant is a committed claim, a spent *)
(* grant an attempt, and leases, row locks, sessions and the two           *)
(* statements of a claim are stuttering steps.                             *)
(***************************************************************************)
EXTENDS JobBoard

\* The phase of a job as its clients may think of it.
Phase(s) ==
    CASE s = "queued" -> "waiting"
      [] s = "running" -> "held"
      [] s = "standby" -> "parked"
      [] s \in {"succeeded", "failed"} -> "finished"
      [] OTHER -> s

\* The result on a row, by the claim whose run reported it.
ResultOf(j) ==
    IF output[j] = 0 THEN "none"
    ELSE IF output[j] = issued[j] THEN "last" ELSE "stale"

Lifecycle == INSTANCE JobLifecycle WITH
    phase <- [j \in Jobs |-> Phase(status[j])],
    spent <- attempts,
    result <- [j \in Jobs |-> ResultOf(j)]

\* The board keeps the promises of JobLifecycle: what happens between a worker and
\* the table in job-store.ts looks, from outside, like the life of a job.
ImplementsLifecycle == Lifecycle!Spec
=============================================================================
