----------------------------- MODULE MCJobBoard -----------------------------
(***************************************************************************)
(* Instances of JobBoard for TLC.  A job may be parked and resumed without *)
(* end, and every round issues another token.  Tokens, sessions and        *)
(* outputs are only ever compared with one another: to stay finite, a      *)
(* resume past the bound forgets one of the rounds the job has been        *)
(* through, and renumbers what is left.                                    *)
(***************************************************************************)
EXTENDS JobBoardRefinement

CONSTANTS
    c1, c2,
    MaxResumes   \* bound: a job's rounds are told apart up to this many resumes

MCClaimers == {c1, c2}

ResumeWithin(j) == parks[j] <= MaxResumes /\ Resume(j)

AtMost(n, top) == IF n > top THEN top ELSE n

\* Nobody holds a parked job and all its tokens are stale, so that one of them stands
\* for the others.
ResumeRenumbered(j) ==
    /\ status[j] = "standby"
    /\ parks[j] > MaxResumes
    /\ status' = [status EXCEPT ![j] = "queued"]
    /\ parks' = [parks EXCEPT ![j] = @ - 1]
    /\ issued' = [issued EXCEPT ![j] = @ - 1]
    /\ session' = [session EXCEPT ![j] = AtMost(@, issued[j] - 1)]
    /\ remote' = [remote EXCEPT ![j] = AtMost(@, issued[j] - 1)]
    /\ UNCHANGED <<attempts, token, live, output, stage, lock>>

MCNext ==
    \/ \E j \in Jobs :
           \/ Create(j) \/ ResumeWithin(j) \/ ResumeRenumbered(j) \/ LeaseExpires(j)
           \/ \E t \in TokensGiven(j) : WorkerWrites(j, t)
    \/ \E c \in Claimers : Claims(c)

MCSpec == Init /\ [][MCNext]_boardVars /\ PollFairness
=============================================================================
