------------------------------ MODULE JobBoard ------------------------------
(***************************************************************************)
(* The job board: the table `job` and the statements job-store.ts runs on  *)
(* it.  Each statement is one atomic action; a claim is two statements,    *)
(* and the second of them locks the row it selects before it writes it.    *)
(*                                                                         *)
(* Data is abstracted to what the board's promises tell apart.  A lease    *)
(* token is the number of the claim that issued it (gen_random_uuid never  *)
(* repeats one); a session is named by the claim whose run minted it; the  *)
(* output of a job is the claim whose run reported it; a lease is live or  *)
(* expired; 0 stands for NULL.  The jobs themselves are numbered in the    *)
(* order (created_at, id) puts them, which need not be the order in which  *)
(* their inserts commit.                                                   *)
(***************************************************************************)
EXTENDS Naturals

CONSTANTS
    Jobs,         \* the rows there may ever be
    Claimers,     \* connections a claim may be running on
    MaxAttempts   \* job.max_attempts

ASSUME JobsAssumption == Jobs \subseteq Nat \ {0}
ASSUME MaxAttemptsAssumption == MaxAttempts \in Nat \ {0}

VARIABLES
    status,    \* job.status, "absent" before the insert
    attempts,  \* job.attempts
    token,     \* job.lease_token
    live,      \* job.lease_expires_at > now()
    session,   \* job.session_id
    remote,    \* job.remote_session_id
    output,    \* job.output (and exit_code)
    stage,     \* how far the claim on each connection has got
    lock,      \* the row each connection's claim holds a lock on
    issued,    \* how many tokens each job has been issued: names the next
    parks      \* history: how often each job was parked

rowVars == <<status, attempts, token, live, session, remote, output, issued, parks>>
boardVars == <<rowVars, stage, lock>>

Settled == {"succeeded", "failed", "dead"}
Status == {"absent", "queued", "running", "standby"} \cup Settled

TypeOK ==
    /\ status \in [Jobs -> Status]
    /\ attempts \in [Jobs -> Nat]
    /\ token \in [Jobs -> Nat]
    /\ live \in [Jobs -> BOOLEAN]
    /\ session \in [Jobs -> Nat]
    /\ remote \in [Jobs -> Nat]
    /\ output \in [Jobs -> Nat]
    /\ stage \in [Claimers -> {"idle", "retired", "locked"}]
    /\ lock \in [Claimers -> Jobs \cup {0}]
    /\ issued \in [Jobs -> Nat]
    /\ parks \in [Jobs -> Nat]

Init ==
    /\ status = [j \in Jobs |-> "absent"]
    /\ attempts = [j \in Jobs |-> 0]
    /\ token = [j \in Jobs |-> 0]
    /\ live = [j \in Jobs |-> FALSE]
    /\ session = [j \in Jobs |-> 0]
    /\ remote = [j \in Jobs |-> 0]
    /\ output = [j \in Jobs |-> 0]
    /\ stage = [c \in Claimers |-> "idle"]
    /\ lock = [c \in Claimers |-> 0]
    /\ issued = [j \in Jobs |-> 0]
    /\ parks = [j \in Jobs |-> 0]

-----------------------------------------------------------------------------
(* Conditions the statements share                                         *)

\* The claim's where clause.
Claimable(j) ==
    /\ status[j] \in {"queued", "running"}
    /\ ~live[j]
    /\ attempts[j] < MaxAttempts

\* The retire statement's where clause.
Burnt(j) ==
    /\ status[j] = "running"
    /\ ~live[j]
    /\ attempts[j] >= MaxAttempts

Locked(j) == \E c \in Claimers : lock[c] = j

\* What every worker write is guarded by.
Holds(j, t) == status[j] = "running" /\ token[j] = t

MayWriteThroughLock(j, t) == Holds(j, t)       \* seeded bug: no row lock

MayWriteAnyToken(j, t) == status[j] = "running" /\ ~Locked(j)  \* seeded bug: no fencing

\* A worker write that matches a row a claim has locked waits for the lock, and
\* then matches no longer; until the lock is released it does not happen.
MayWrite(j, t) == Holds(j, t) /\ ~Locked(j)

-----------------------------------------------------------------------------
(* Statements                                                              *)

\* insert: the lease is expired from the start, so the row is claimable at once.
Create(j) ==
    /\ status[j] = "absent"
    /\ status' = [status EXCEPT ![j] = "queued"]
    /\ UNCHANGED <<attempts, token, live, session, remote, output, issued, parks>>
    /\ UNCHANGED <<stage, lock>>

\* First statement of a claim: every row that has burned its attempts is retired.
ClaimRetire(c) ==
    /\ stage[c] = "idle"
    /\ status' = [j \in Jobs |-> IF Burnt(j) THEN "dead" ELSE status[j]]
    /\ token' = [j \in Jobs |-> IF Burnt(j) THEN 0 ELSE token[j]]
    /\ stage' = [stage EXCEPT ![c] = "retired"]
    /\ UNCHANGED <<attempts, live, session, remote, output, issued, parks, lock>>

SelectableUnlocked(busy) == {j \in Jobs : Claimable(j)}   \* seeded bug: no skip locked

\* Second statement, its subquery: the oldest claimable row is locked.  Rows that
\* are locked already are skipped: those of other claims, and those in busy, which
\* their own workers are writing at that instant.
Selectable(busy) == {j \in Jobs : Claimable(j) /\ ~Locked(j) /\ j \notin busy}

ClaimSelect(c, j, busy) ==
    /\ stage[c] = "retired"
    /\ j \in Selectable(busy)
    /\ \A k \in Selectable(busy) : j <= k
    /\ stage' = [stage EXCEPT ![c] = "locked"]
    /\ lock' = [lock EXCEPT ![c] = j]
    /\ UNCHANGED rowVars

\* There is nothing to claim: the route answers 204.
ClaimEmpty(c, busy) ==
    /\ stage[c] = "retired"
    /\ Selectable(busy) = {}
    /\ stage' = [stage EXCEPT ![c] = "idle"]
    /\ UNCHANGED <<rowVars, lock>>

KeptSessionAlways(j) == session[j]             \* seeded bug: the case is missing

\* A parked job's session is kept, that of an attempt that was lost is cleared.
KeptSession(j) == IF status[j] = "queued" THEN session[j] ELSE 0

KeptRemote(j) == IF status[j] = "queued" THEN remote[j] ELSE 0

\* Second statement, its update and commit.
ClaimCommit(c) ==
    LET j == lock[c] IN
    /\ stage[c] = "locked"
    /\ status' = [status EXCEPT ![j] = "running"]
    /\ token' = [token EXCEPT ![j] = issued[j] + 1]
    /\ issued' = [issued EXCEPT ![j] = @ + 1]
    /\ attempts' = [attempts EXCEPT ![j] = @ + 1]
    /\ session' = [session EXCEPT ![j] = KeptSession(j)]
    /\ remote' = [remote EXCEPT ![j] = KeptRemote(j)]
    /\ live' = [live EXCEPT ![j] = TRUE]
    /\ stage' = [stage EXCEPT ![c] = "idle"]
    /\ lock' = [lock EXCEPT ![c] = 0]
    /\ UNCHANGED <<output, parks>>

\* The board or its connection dies between or inside the two statements.
ClaimAbort(c) ==
    /\ stage[c] # "idle"
    /\ stage' = [stage EXCEPT ![c] = "idle"]
    /\ lock' = [lock EXCEPT ![c] = 0]
    /\ UNCHANGED rowVars

\* A heartbeat renews the lease, an expired one that nobody has claimed included.
Heartbeat(j, t) ==
    /\ MayWrite(j, t)
    /\ live' = [live EXCEPT ![j] = TRUE]
    /\ UNCHANGED <<status, attempts, token, session, remote, output, issued, parks>>
    /\ UNCHANGED <<stage, lock>>

\* A report without a remote id (r = 0) leaves the stored one alone.
Session(j, t, s, r) ==
    /\ MayWrite(j, t)
    /\ session' = [session EXCEPT ![j] = s]
    /\ remote' = [remote EXCEPT ![j] = IF r = 0 THEN @ ELSE r]
    /\ UNCHANGED <<status, attempts, token, live, output, issued, parks>>
    /\ UNCHANGED <<stage, lock>>

NotGivenBack(n) == n                           \* seeded bug: parking costs an attempt

GivenBack(n) == IF n = 0 THEN 0 ELSE n - 1     \* greatest(attempts - 1, 0)

\* Parking: the lease is expired on the way in, the attempt is handed back.
Suspend(j, t) ==
    /\ MayWrite(j, t)
    /\ status' = [status EXCEPT ![j] = "standby"]
    /\ token' = [token EXCEPT ![j] = 0]
    /\ live' = [live EXCEPT ![j] = FALSE]
    /\ attempts' = [attempts EXCEPT ![j] = GivenBack(@)]
    /\ parks' = [parks EXCEPT ![j] = @ + 1]
    /\ UNCHANGED <<session, remote, output, issued>>
    /\ UNCHANGED <<stage, lock>>

\* Not lease-guarded: nobody holds a parked job.
Resume(j) ==
    /\ status[j] = "standby"
    /\ status' = [status EXCEPT ![j] = "queued"]
    /\ UNCHANGED <<attempts, token, live, session, remote, output, issued, parks>>
    /\ UNCHANGED <<stage, lock>>

Complete(j, t, outcome) ==
    /\ MayWrite(j, t)
    /\ status' = [status EXCEPT ![j] = outcome]
    /\ token' = [token EXCEPT ![j] = 0]
    /\ output' = [output EXCEPT ![j] = t]
    /\ UNCHANGED <<attempts, live, session, remote, issued, parks>>
    /\ UNCHANGED <<stage, lock>>

\* Time passes.  The lease of a settled job is never read again.
LeaseExpires(j) ==
    /\ status[j] = "running"
    /\ live[j]
    /\ live' = [live EXCEPT ![j] = FALSE]
    /\ UNCHANGED <<status, attempts, token, session, remote, output, issued, parks>>
    /\ UNCHANGED <<stage, lock>>

-----------------------------------------------------------------------------
(* The board on its own: workers may call with any token they were ever    *)
(* given, and report the session they were handed or the one they minted.  *)

TokensGiven(j) == 1 .. issued[j]

SessionOf(j) == IF session[j] = 0 THEN token[j] ELSE session[j]

WorkerWrites(j, t) ==
    \/ Heartbeat(j, t)
    \/ \E r \in {0, SessionOf(j)} : Session(j, t, SessionOf(j), r)
    \/ Suspend(j, t)
    \/ \E outcome \in {"succeeded", "failed"} : Complete(j, t, outcome)

Claims(c) ==
    \/ ClaimRetire(c)
    \/ \E busy \in SUBSET {j \in Jobs : status[j] = "running"} :
           ClaimEmpty(c, busy) \/ \E j \in Jobs : ClaimSelect(c, j, busy)
    \/ ClaimCommit(c)
    \/ ClaimAbort(c)

Next ==
    \/ \E j \in Jobs :
           \/ Create(j) \/ Resume(j) \/ LeaseExpires(j)
           \/ \E t \in TokensGiven(j) : WorkerWrites(j, t)
    \/ \E c \in Claimers : Claims(c)

Spec == Init /\ [][Next]_boardVars

\* Drivers poll for as long as they run, so a claim is always begun again; and the
\* board does not die in the middle of every one, nor of every one of the same row, so
\* its second statement, which an abort disables, is taken in the end if it is reached
\* again and again.
PollFairness ==
    \A c \in Claimers :
        /\ WF_boardVars(ClaimRetire(c))
        /\ SF_boardVars(\E busy \in SUBSET {j \in Jobs : status[j] = "running"} :
               ClaimEmpty(c, busy) \/ \E j \in Jobs : ClaimSelect(c, j, busy))
        /\ \A j \in Jobs : SF_boardVars(lock[c] = j /\ ClaimCommit(c))

FairSpec == Spec /\ PollFairness

-----------------------------------------------------------------------------
(* Properties                                                              *)

\* A job that waits in the queue can always be claimed: it has an attempt left and
\* its lease is over.  One that had none would be neither claimed nor retired, ever
\* (job-store.ts claim and suspend).
QueuedIsClaimable == \A j \in Jobs : status[j] = "queued" => Claimable(j)

\* Every claim of a job is either an attempt it has spent or one it got back by
\* parking, and no more than MaxAttempts are ever spent: parking a job, however
\* often, never brings it nearer to its end (job-store.ts suspend).
ParkingIsFree ==
    \A j \in Jobs : /\ attempts[j] + parks[j] = issued[j]
                    /\ attempts[j] <= MaxAttempts

\* Only a job that used up its attempts is dead (job-store.ts claim).
DeadHasBurnt == \A j \in Jobs : status[j] = "dead" => attempts[j] = MaxAttempts

\* The result of a job is that of the run that was claimed last, never that of a
\* run another one has replaced (docs/jobs.md, the fencing token).
ResultIsTheLastRuns ==
    \A j \in Jobs : status[j] \in {"succeeded", "failed"} => output[j] = issued[j]

\* Two claims never hold the same row, and a row stays claimable from the moment a
\* claim selects it until that claim commits (for update skip locked).
ClaimsAreExclusive ==
    \A c \in Claimers : lock[c] # 0 =>
        /\ Claimable(lock[c])
        /\ \A d \in Claimers : lock[d] = lock[c] => d = c

\* The remote session on a row belongs to the local session on that row: a link is
\* never shown next to the output of another attempt (job-store.ts claim, session).
RemoteMatchesSession == \A j \in Jobs : remote[j] # 0 => remote[j] = session[j]

\* A running job changes hands, or is given up, only once its lease has expired.
LeaseNeverStolen ==
    [][\A j \in Jobs :
          /\ status[j] = "running" /\ token'[j] # token[j]
          /\ status'[j] \in {"running", "dead"}
          => ~live[j]]_boardVars

CameBack(j) == status[j] = "standby" /\ status'[j] = "queued"

\* Older jobs are parked and resumed again and again, without end.  A claim takes the
\* oldest first, and a resumed job keeps its place: such jobs may go before j each time.
OvertakenForEver(j) == []<><<\E k \in Jobs : k < j /\ CameBack(k)>>_boardVars

\* A queued job is handed to a worker in the end, unless jobs older than it are resumed
\* without end: no number of newer jobs, of lost attempts at older ones, and of times
\* that newer ones or it itself are parked and come back keeps it waiting for ever
\* (claim's order by, job-store.ts:244; resume has no limit, job-store.ts:325).
QueuedIsServed ==
    \A j \in Jobs : \/ OvertakenForEver(j)
                    \/ status[j] = "queued" ~> status[j] # "queued"

\* A settled job stays as it is: no late report changes its status or its output.
SettledForever ==
    [][\A j \in Jobs : status[j] \in Settled =>
          status'[j] = status[j] /\ output'[j] = output[j]]_boardVars
=============================================================================
