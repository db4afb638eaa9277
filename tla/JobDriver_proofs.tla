-------------------------- MODULE JobDriver_proofs --------------------------
(***************************************************************************)
(* Theorems of JobBoard and of JobDriver, for any jobs, connections and    *)
(* bounds, and for any fleet: any drivers, slots and configuration.        *)
(*                                                                         *)
(* The board comes first: one inductive invariant, IInv, carries all its   *)
(* theorems.  The main theorem of the fleet is that every step of it is a  *)
(* step the board alone allows for, so that they hold of the whole system. *)
(* What it rests on is RunInv: the session a run would report is the one   *)
(* its row would be given.  RanInv says what a run that is past its        *)
(* transcript knows of the container's exit.  OneInv says where the runs   *)
(* and containers of a job may be: one of each to a claim, one to a        *)
(* session, and none of a claim that was reported.                         *)
(***************************************************************************)
EXTENDS JobDriver, JobBoardRefinement, TLAPS

-----------------------------------------------------------------------------
(* The board.                                                              *)

\* The token on a row is null, or it is the last one issued and the job is running
\* on an attempt the claim has counted.
TokenInv ==
    \A j \in Jobs :
        /\ token[j] # 0 <=> status[j] = "running"
        /\ token[j] # 0 => token[j] = issued[j]
        /\ status[j] = "running" => attempts[j] # 0

\* A job that waits has an attempt left and an expired lease, parked or queued alike:
\* what QueuedIsClaimable says of a queued job must already hold of a parked one, for
\* resume changes nothing but the status.  And it has no result before it is finished.
WaitingInv ==
    \A j \in Jobs :
        /\ status[j] \notin {"succeeded", "failed"} => output[j] = 0
        /\ status[j] \in {"queued", "standby"} => ~live[j] /\ attempts[j] < MaxAttempts
        /\ status[j] = "absent" => ~live[j] /\ attempts[j] = 0

\* A claim holds a lock exactly while it stands between its subquery and its commit.
StageInv == \A c \in Claimers : stage[c] = "locked" <=> lock[c] # 0

IInv ==
    /\ TypeOK
    /\ TokenInv
    /\ WaitingInv
    /\ StageInv
    /\ ParkingIsFree
    /\ DeadHasBurnt
    /\ ResultIsTheLastRuns
    /\ ClaimsAreExclusive
    /\ RemoteMatchesSession

-----------------------------------------------------------------------------

\* The empty board satisfies the invariant.
LEMMA InitIInv == Init => IInv
  BY JobsAssumption, MaxAttemptsAssumption
     DEF Init, IInv, TypeOK, Status, Settled, TokenInv, WaitingInv, StageInv, ParkingIsFree,
         DeadHasBurnt, ResultIsTheLastRuns, ClaimsAreExclusive, RemoteMatchesSession

\* An insert preserves the invariant.
LEMMA CreateIInv == ASSUME IInv, NEW j \in Jobs, Create(j) PROVE IInv'
<1> USE MaxAttemptsAssumption DEF IInv
<1>1. TypeOK'
  BY DEF TypeOK, Create, Status, Settled
<1>2. TokenInv' /\ WaitingInv' /\ StageInv'
  BY DEF TypeOK, Create, TokenInv, WaitingInv, StageInv
<1>3. ParkingIsFree' /\ DeadHasBurnt' /\ ResultIsTheLastRuns' /\ RemoteMatchesSession'
  BY DEF TypeOK, Create, ParkingIsFree, DeadHasBurnt, ResultIsTheLastRuns, RemoteMatchesSession
<1>4. ClaimsAreExclusive'
  BY DEF TypeOK, Create, ClaimsAreExclusive, Claimable
<1> QED
  BY <1>1, <1>2, <1>3, <1>4

\* The retire statement preserves the invariant: what it retires is on its last attempt.
LEMMA RetireIInv == ASSUME IInv, NEW c \in Claimers, ClaimRetire(c) PROVE IInv'
<1> USE MaxAttemptsAssumption DEF IInv
<1>1. TypeOK'
  BY DEF TypeOK, ClaimRetire, Status, Settled
<1>2. TokenInv' /\ WaitingInv'
  BY DEF TypeOK, ClaimRetire, Burnt, TokenInv, WaitingInv
<1>3. StageInv'
  BY DEF TypeOK, ClaimRetire, StageInv
<1>4. ParkingIsFree' /\ RemoteMatchesSession'
  BY DEF TypeOK, ClaimRetire, ParkingIsFree, RemoteMatchesSession
<1>5. DeadHasBurnt' /\ ResultIsTheLastRuns'
  BY DEF TypeOK, ClaimRetire, Burnt, ParkingIsFree, DeadHasBurnt, ResultIsTheLastRuns
<1>6. ClaimsAreExclusive'
  BY DEF TypeOK, ClaimRetire, Burnt, ClaimsAreExclusive, Claimable
<1> QED
  BY <1>1, <1>2, <1>3, <1>4, <1>5, <1>6

\* Selecting a row preserves the invariant: the row was claimable and not locked.
LEMMA SelectIInv ==
  ASSUME IInv, NEW c \in Claimers, NEW j \in Jobs, NEW busy, ClaimSelect(c, j, busy)
  PROVE  IInv'
<1> USE JobsAssumption DEF IInv
<1>1. TypeOK'
  BY DEF TypeOK, ClaimSelect, rowVars
<1>2. TokenInv' /\ WaitingInv'
  BY DEF ClaimSelect, rowVars, TokenInv, WaitingInv
<1>3. StageInv'
  BY DEF TypeOK, ClaimSelect, StageInv
<1>4. ParkingIsFree' /\ DeadHasBurnt' /\ ResultIsTheLastRuns' /\ RemoteMatchesSession'
  BY DEF ClaimSelect, rowVars, ParkingIsFree, DeadHasBurnt, ResultIsTheLastRuns,
         RemoteMatchesSession
<1>5. ClaimsAreExclusive'
  BY DEF TypeOK, ClaimSelect, rowVars, Selectable, Locked, ClaimsAreExclusive, Claimable
<1> QED
  BY <1>1, <1>2, <1>3, <1>4, <1>5

\* Leaving a claim with no row, or losing it, preserves the invariant.
LEMMA LeaveIInv ==
  ASSUME IInv, NEW c \in Claimers, NEW busy, ClaimEmpty(c, busy) \/ ClaimAbort(c)
  PROVE  IInv'
<1> USE JobsAssumption DEF IInv
<1>1. TypeOK'
  BY DEF TypeOK, ClaimEmpty, ClaimAbort, rowVars
<1>2. TokenInv' /\ WaitingInv'
  BY DEF ClaimEmpty, ClaimAbort, rowVars, TokenInv, WaitingInv
<1>3. StageInv'
  BY DEF TypeOK, ClaimEmpty, ClaimAbort, StageInv
<1>4. ParkingIsFree' /\ DeadHasBurnt' /\ ResultIsTheLastRuns' /\ RemoteMatchesSession'
  BY DEF ClaimEmpty, ClaimAbort, rowVars, ParkingIsFree, DeadHasBurnt, ResultIsTheLastRuns,
         RemoteMatchesSession
<1>5. ClaimsAreExclusive'
  BY DEF TypeOK, ClaimEmpty, ClaimAbort, rowVars, ClaimsAreExclusive, Claimable
<1> QED
  BY <1>1, <1>2, <1>3, <1>4, <1>5

\* A committed claim preserves the invariant: the row it locked is still claimable.
LEMMA CommitIInv == ASSUME IInv, NEW c \in Claimers, ClaimCommit(c) PROVE IInv'
<1> USE JobsAssumption, MaxAttemptsAssumption DEF IInv
<1> DEFINE j == lock[c]
<1>1. j \in Jobs /\ Claimable(j)
  BY DEF ClaimCommit, StageInv, ClaimsAreExclusive, TypeOK
<1> HIDE DEF j
<1>2. /\ status' = [status EXCEPT ![j] = "running"]
      /\ token' = [token EXCEPT ![j] = issued[j] + 1]
      /\ issued' = [issued EXCEPT ![j] = @ + 1]
      /\ attempts' = [attempts EXCEPT ![j] = @ + 1]
      /\ session' = [session EXCEPT ![j] = KeptSession(j)]
      /\ remote' = [remote EXCEPT ![j] = KeptRemote(j)]
      /\ live' = [live EXCEPT ![j] = TRUE]
      /\ stage' = [stage EXCEPT ![c] = "idle"]
      /\ lock' = [lock EXCEPT ![c] = 0]
      /\ UNCHANGED <<output, parks>>
  BY DEF ClaimCommit, j
<1>3. TypeOK'
  BY <1>1, <1>2 DEF TypeOK, Status, KeptSession, KeptRemote
<1>4. TokenInv' /\ WaitingInv'
  BY <1>1, <1>2 DEF TypeOK, TokenInv, WaitingInv, Claimable
<1>5. StageInv'
  BY <1>2 DEF TypeOK, StageInv
<1>6. ParkingIsFree'
  BY <1>1, <1>2 DEF TypeOK, ParkingIsFree, Claimable
<1>7. DeadHasBurnt' /\ ResultIsTheLastRuns'
  BY <1>1, <1>2 DEF TypeOK, DeadHasBurnt, ResultIsTheLastRuns
<1>8. ClaimsAreExclusive'
  <2> SUFFICES ASSUME NEW e \in Claimers, lock'[e] # 0
               PROVE  /\ Claimable(lock[e])'
                      /\ \A d \in Claimers : lock'[d] = lock'[e] => d = e
    BY DEF ClaimsAreExclusive
  <2>1. e # c /\ lock'[e] = lock[e] /\ lock[e] # 0
    BY <1>2 DEF TypeOK
  <2>2. lock[e] # j
    BY <2>1, <1>1 DEF ClaimsAreExclusive, j
  <2>3. Claimable(lock[e])'
    BY <1>1, <1>2, <2>1, <2>2 DEF ClaimsAreExclusive, Claimable, TypeOK
  <2>4. \A d \in Claimers : lock'[d] = lock'[e] => d = e
    BY <1>2, <2>1 DEF ClaimsAreExclusive, TypeOK
  <2> QED
    BY <2>3, <2>4
<1>9. RemoteMatchesSession'
  BY <1>1, <1>2 DEF TypeOK, RemoteMatchesSession, KeptSession, KeptRemote
<1> QED
  BY <1>3, <1>4, <1>5, <1>6, <1>7, <1>8, <1>9

\* A heartbeat preserves the invariant: no claim has locked the row it renews.
LEMMA HeartbeatIInv == ASSUME IInv, NEW j \in Jobs, NEW t, Heartbeat(j, t) PROVE IInv'
<1> USE DEF IInv, Heartbeat, MayWrite, Holds
<1>1. TypeOK'
  BY DEF TypeOK
<1>2. TokenInv' /\ WaitingInv' /\ StageInv'
  BY DEF TypeOK, TokenInv, WaitingInv, StageInv
<1>3. ParkingIsFree' /\ DeadHasBurnt' /\ ResultIsTheLastRuns' /\ RemoteMatchesSession'
  BY DEF ParkingIsFree, DeadHasBurnt, ResultIsTheLastRuns, RemoteMatchesSession
<1>4. ClaimsAreExclusive'
  BY DEF TypeOK, Locked, ClaimsAreExclusive, Claimable
<1> QED
  BY <1>1, <1>2, <1>3, <1>4

\* A session report preserves the invariant: the id it carries is the one on the row,
\* unless there is none.
LEMMA SessionIInv ==
  ASSUME IInv, NEW j \in Jobs, NEW t, NEW r \in {0, SessionOf(j)},
         Session(j, t, SessionOf(j), r)
  PROVE  IInv'
<1> USE DEF IInv, Session, MayWrite, Holds
<1>1. SessionOf(j) \in Nat
  BY DEF SessionOf, TypeOK
<1>2. TypeOK'
  BY <1>1 DEF TypeOK
<1>3. TokenInv' /\ WaitingInv' /\ StageInv'
  BY DEF TypeOK, TokenInv, WaitingInv, StageInv
<1>4. ParkingIsFree' /\ DeadHasBurnt' /\ ResultIsTheLastRuns'
  BY DEF ParkingIsFree, DeadHasBurnt, ResultIsTheLastRuns
<1>5. ClaimsAreExclusive'
  BY DEF TypeOK, ClaimsAreExclusive, Claimable
<1>6. RemoteMatchesSession'
  BY <1>1 DEF TypeOK, RemoteMatchesSession, SessionOf
<1> QED
  BY <1>2, <1>3, <1>4, <1>5, <1>6

\* Parking preserves the invariant: the attempt it hands back is one the job has.
LEMMA SuspendIInv == ASSUME IInv, NEW j \in Jobs, NEW t, Suspend(j, t) PROVE IInv'
<1> USE MaxAttemptsAssumption DEF IInv, Suspend, MayWrite, Holds
<1>1. attempts[j] \in 1 .. MaxAttempts /\ GivenBack(attempts[j]) = attempts[j] - 1
  BY DEF TypeOK, TokenInv, ParkingIsFree, GivenBack
<1>2. TypeOK'
  BY <1>1 DEF TypeOK, Status
<1>3. TokenInv' /\ StageInv'
  BY DEF TypeOK, TokenInv, StageInv
<1>4. WaitingInv'
  BY <1>1 DEF TypeOK, WaitingInv
<1>5. ParkingIsFree'
  BY <1>1 DEF TypeOK, ParkingIsFree
<1>6. DeadHasBurnt' /\ ResultIsTheLastRuns' /\ RemoteMatchesSession'
  BY DEF TypeOK, DeadHasBurnt, ResultIsTheLastRuns, RemoteMatchesSession
<1>7. ClaimsAreExclusive'
  BY DEF TypeOK, Locked, ClaimsAreExclusive, Claimable
<1> QED
  BY <1>2, <1>3, <1>4, <1>5, <1>6, <1>7

\* Completion preserves the invariant: the token it presents is the last one issued.
LEMMA CompleteIInv ==
  ASSUME IInv, NEW j \in Jobs, NEW t \in Nat, NEW outcome \in {"succeeded", "failed"},
         Complete(j, t, outcome)
  PROVE  IInv'
<1> USE DEF IInv, Complete, MayWrite, Holds
<1>1. TypeOK'
  BY DEF TypeOK, Status, Settled
<1>2. TokenInv' /\ WaitingInv' /\ StageInv'
  BY DEF TypeOK, TokenInv, WaitingInv, StageInv
<1>3. ParkingIsFree' /\ DeadHasBurnt' /\ RemoteMatchesSession'
  BY DEF TypeOK, ParkingIsFree, DeadHasBurnt, RemoteMatchesSession
<1>4. ResultIsTheLastRuns'
  BY DEF TypeOK, TokenInv, ResultIsTheLastRuns
<1>5. ClaimsAreExclusive'
  BY DEF TypeOK, Locked, ClaimsAreExclusive, Claimable
<1> QED
  BY <1>1, <1>2, <1>3, <1>4, <1>5

\* Resuming a parked job and the passing of time preserve the invariant.
LEMMA OutsideIInv ==
  ASSUME IInv, NEW j \in Jobs, Resume(j) \/ LeaseExpires(j)
  PROVE  IInv'
<1> USE DEF IInv, Resume, LeaseExpires
<1>1. TypeOK'
  BY DEF TypeOK, Status
<1>2. TokenInv' /\ WaitingInv' /\ StageInv'
  BY DEF TypeOK, TokenInv, WaitingInv, StageInv
<1>3. ParkingIsFree' /\ DeadHasBurnt' /\ ResultIsTheLastRuns' /\ RemoteMatchesSession'
  BY DEF TypeOK, ParkingIsFree, DeadHasBurnt, ResultIsTheLastRuns, RemoteMatchesSession
<1>4. ClaimsAreExclusive'
  BY DEF TypeOK, ClaimsAreExclusive, Claimable
<1> QED
  BY <1>1, <1>2, <1>3, <1>4

\* Every step of the board preserves the invariant.
LEMMA NextIInv == ASSUME IInv, [Next]_boardVars PROVE IInv'
<1>1. CASE UNCHANGED boardVars
  BY <1>1 DEF boardVars, rowVars, IInv, TypeOK, TokenInv, WaitingInv, StageInv, ParkingIsFree,
              DeadHasBurnt, ResultIsTheLastRuns, ClaimsAreExclusive, RemoteMatchesSession,
              Claimable
<1>2. ASSUME NEW j \in Jobs, Create(j) \/ Resume(j) \/ LeaseExpires(j) PROVE IInv'
  BY <1>2, CreateIInv, OutsideIInv
<1>3. ASSUME NEW j \in Jobs, NEW t \in TokensGiven(j), WorkerWrites(j, t) PROVE IInv'
  <2>1. t \in Nat
    BY DEF TokensGiven, IInv, TypeOK
  <2> QED
    BY <1>3, <2>1, HeartbeatIInv, SessionIInv, SuspendIInv, CompleteIInv DEF WorkerWrites
<1>4. ASSUME NEW c \in Claimers, Claims(c) PROVE IInv'
  BY <1>4, RetireIInv, SelectIInv, LeaveIInv, CommitIInv DEF Claims
<1> QED
  BY <1>1, <1>2, <1>3, <1>4 DEF Next

\* The inductive invariant holds in every state of the board.
THEOREM Invariance == Spec => []IInv
<1>1. Init => IInv
  BY InitIInv
<1>2. IInv /\ [Next]_boardVars => IInv'
  BY NextIInv
<1> QED
  BY <1>1, <1>2, PTL DEF Spec

\* Every variable keeps its type.
THEOREM TypeCorrect == Spec => []TypeOK
<1>1. IInv => TypeOK
  BY DEF IInv
<1> QED
  BY <1>1, Invariance, PTL

\* No job is ever stuck in the queue without an attempt or behind a live lease.
THEOREM NoStuckJob == Spec => []QueuedIsClaimable
<1>1. IInv => QueuedIsClaimable
  BY DEF IInv, WaitingInv, QueuedIsClaimable, Claimable
<1> QED
  BY <1>1, Invariance, PTL

\* Attempts are conserved: claims are spent or handed back, and at most MaxAttempts
\* are spent; a job is dead only when all are.
THEOREM AttemptsConserved == Spec => [](ParkingIsFree /\ DeadHasBurnt)
<1>1. IInv => ParkingIsFree /\ DeadHasBurnt
  BY DEF IInv
<1> QED
  BY <1>1, Invariance, PTL

\* Only the run that was claimed last leaves a result.
THEOREM Fencing == Spec => []ResultIsTheLastRuns
<1>1. IInv => ResultIsTheLastRuns
  BY DEF IInv
<1> QED
  BY <1>1, Invariance, PTL

\* Concurrent claims never work on the same row, and a selected row stays claimable.
THEOREM ExclusiveClaims == Spec => []ClaimsAreExclusive
<1>1. IInv => ClaimsAreExclusive
  BY DEF IInv
<1> QED
  BY <1>1, Invariance, PTL

\* The remote link on a row is that of the session on the row.
THEOREM LinksMatch == Spec => []RemoteMatchesSession
<1>1. IInv => RemoteMatchesSession
  BY DEF IInv
<1> QED
  BY <1>1, Invariance, PTL

-----------------------------------------------------------------------------
(* Action properties                                                       *)

\* A step that takes a running job from its worker finds its lease expired: only a
\* commit issues a token, and only of a row the invariant says is still claimable.
LEMMA StepStealsNoLease ==
  ASSUME IInv, [Next]_boardVars, NEW j \in Jobs,
         status[j] = "running", token'[j] # token[j], status'[j] \in {"running", "dead"}
  PROVE  ~live[j]
<1>1. CASE UNCHANGED boardVars
  BY <1>1 DEF boardVars, rowVars
<1>2. ASSUME NEW k \in Jobs, Create(k) \/ Resume(k) \/ LeaseExpires(k) PROVE ~live[j]
  BY <1>2 DEF Create, Resume, LeaseExpires
<1>3. ASSUME NEW k \in Jobs, NEW t \in TokensGiven(k), WorkerWrites(k, t) PROVE ~live[j]
  BY <1>3 DEF IInv, TypeOK, WorkerWrites, Heartbeat, Session, Suspend, Complete
<1>4. ASSUME NEW c \in Claimers, Claims(c) PROVE ~live[j]
  <2>1. CASE ClaimRetire(c)
    BY <2>1 DEF ClaimRetire, Burnt
  <2>2. CASE ClaimCommit(c)
    BY <2>2 DEF IInv, TypeOK, ClaimCommit, StageInv, ClaimsAreExclusive, Claimable
  <2> QED
    BY <1>4, <2>1, <2>2 DEF Claims, ClaimSelect, ClaimEmpty, ClaimAbort, rowVars
<1> QED
  BY <1>1, <1>2, <1>3, <1>4 DEF Next

\* No lease is stolen while it is live.
THEOREM NoTheft == Spec => LeaseNeverStolen
<1>1. IInv /\ [Next]_boardVars =>
        [\A j \in Jobs :
           /\ status[j] = "running" /\ token'[j] # token[j]
           /\ status'[j] \in {"running", "dead"}
           => ~live[j]]_boardVars
  BY StepStealsNoLease
<1> QED
  BY <1>1, Invariance, PTL DEF Spec, LeaseNeverStolen

\* A step leaves the status and the output of a settled job alone.
LEMMA StepKeepsSettled ==
  ASSUME IInv, [Next]_boardVars, NEW j \in Jobs, status[j] \in Settled
  PROVE  status'[j] = status[j] /\ output'[j] = output[j]
<1> USE DEF Settled
<1>1. CASE UNCHANGED boardVars
  BY <1>1 DEF boardVars, rowVars
<1>2. ASSUME NEW k \in Jobs, Create(k) \/ Resume(k) \/ LeaseExpires(k)
      PROVE  status'[j] = status[j] /\ output'[j] = output[j]
  BY <1>2 DEF IInv, TypeOK, Create, Resume, LeaseExpires
<1>3. ASSUME NEW k \in Jobs, NEW t \in TokensGiven(k), WorkerWrites(k, t)
      PROVE  status'[j] = status[j] /\ output'[j] = output[j]
  BY <1>3 DEF IInv, TypeOK, WorkerWrites, Heartbeat, Session, Suspend, Complete, MayWrite, Holds
<1>4. ASSUME NEW c \in Claimers, Claims(c)
      PROVE  status'[j] = status[j] /\ output'[j] = output[j]
  <2>1. CASE ClaimRetire(c)
    BY <2>1 DEF ClaimRetire, Burnt
  <2>2. CASE ClaimCommit(c)
    BY <2>2 DEF IInv, TypeOK, ClaimCommit, StageInv, ClaimsAreExclusive, Claimable
  <2> QED
    BY <1>4, <2>1, <2>2 DEF Claims, ClaimSelect, ClaimEmpty, ClaimAbort, rowVars
<1> QED
  BY <1>1, <1>2, <1>3, <1>4 DEF Next

\* What is settled stays settled, and keeps its output.
THEOREM Final == Spec => SettledForever
<1>1. IInv /\ [Next]_boardVars =>
        [\A j \in Jobs : status[j] \in Settled =>
           status'[j] = status[j] /\ output'[j] = output[j]]_boardVars
  BY StepKeepsSettled
<1> QED
  BY <1>1, Invariance, PTL DEF Spec, SettledForever

-----------------------------------------------------------------------------
(* Refinement                                                              *)

\* The abstract view: what JobLifecycle's variables are mapped to.
View == <<[j \in Jobs |-> Phase(status[j])], attempts, [j \in Jobs |-> ResultOf(j)]>>

\* A step that leaves the abstract view alone is a stuttering step of the life cycle.
LEMMA ViewStutters == UNCHANGED View => UNCHANGED Lifecycle!lifecycleVars
  BY DEF View, Lifecycle!lifecycleVars

\* The result of a job that has none stays none, whatever is issued to it.
LEMMA ResultStays ==
  ASSUME NEW j \in Jobs, output'[j] = output[j],
         issued'[j] = issued[j] \/ output[j] = 0
  PROVE  ResultOf(j)' = ResultOf(j)
  BY DEF ResultOf

\* Steps that touch nothing of a view.
LEMMA SameView ==
  ASSUME UNCHANGED <<attempts, output, issued>>, \A j \in Jobs : Phase(status'[j]) = Phase(status[j])
  PROVE  UNCHANGED View
<1>1. \A j \in Jobs : ResultOf(j)' = ResultOf(j)
  BY ResultStays
<1> QED
  BY <1>1 DEF View

\* An empty board is an empty life cycle.
LEMMA InitRefines == Init => Lifecycle!Init
<1> SUFFICES ASSUME Init PROVE Lifecycle!Init
  OBVIOUS
<1>1. \A j \in Jobs : Phase(status[j]) = "absent" /\ ResultOf(j) = "none"
  <2> TAKE j \in Jobs
  <2>1. status[j] = "absent" /\ output[j] = 0
    BY DEF Init
  <2>2. Phase("absent") = "absent"
    BY DEF Phase
  <2> QED
    BY <2>1, <2>2 DEF ResultOf
<1>2. attempts = [j \in Jobs |-> 0]
  BY DEF Init
<1> QED
  BY <1>1, <1>2 DEF Lifecycle!Init

\* A committed claim grants the job it locked.
LEMMA CommitRefines ==
  ASSUME IInv, NEW c \in Claimers, ClaimCommit(c)
  PROVE  \E j \in Jobs : Lifecycle!Grant(j)
<1> USE DEF IInv
<1>1. lock[c] \in Jobs /\ Claimable(lock[c])
  BY JobsAssumption DEF ClaimCommit, StageInv, ClaimsAreExclusive, TypeOK
<1>2. \A j \in Jobs : ResultOf(j)' = ResultOf(j)
  <2> TAKE j \in Jobs
  <2>1. j = lock[c] => output[j] = 0
    BY <1>1 DEF Claimable, WaitingInv
  <2>2. output' = output /\ (j # lock[c] => issued'[j] = issued[j])
    BY DEF ClaimCommit, TypeOK
  <2> QED
    BY <2>1, <2>2, ResultStays
<1>3. [j \in Jobs |-> ResultOf(j)]' = [j \in Jobs |-> ResultOf(j)]
  BY <1>2
<1>4. Lifecycle!Grant(lock[c])
  BY <1>1, <1>3 DEF ClaimCommit, Claimable, TypeOK, Phase, Lifecycle!Grant
<1> QED
  BY <1>1, <1>4

\* Retiring rows gives up exactly those that have burned their attempts.
LEMMA RetireRefines ==
  ASSUME IInv, NEW c \in Claimers, ClaimRetire(c)
  PROVE  \E S \in SUBSET Jobs : Lifecycle!GiveUp(S)
<1> DEFINE S == {j \in Jobs : Burnt(j)}
<1>1. \A j \in S : Phase(status[j]) = "held" /\ attempts[j] = MaxAttempts
  <2> SUFFICES ASSUME NEW j \in S
               PROVE  Phase(status[j]) = "held" /\ attempts[j] = MaxAttempts
    OBVIOUS
  <2>1. Phase("running") = "held"
    BY DEF Phase
  <2>2. j \in Jobs /\ status[j] = "running" /\ attempts[j] >= MaxAttempts
    BY DEF Burnt
  <2>3. attempts[j] \in Nat /\ attempts[j] <= MaxAttempts
    BY <2>2 DEF IInv, TypeOK, ParkingIsFree
  <2> QED
    BY <2>1, <2>2, <2>3, MaxAttemptsAssumption
<1>2. \A j \in Jobs : Phase(status'[j]) = IF j \in S THEN "dead" ELSE Phase(status[j])
  <2>1. Phase("dead") = "dead"
    BY DEF Phase
  <2>2. \A j \in Jobs : status'[j] = IF j \in S THEN "dead" ELSE status[j]
    BY DEF ClaimRetire
  <2> QED
    BY <2>1, <2>2
<1>3. UNCHANGED <<issued, attempts, output>>
  BY DEF ClaimRetire
<1>4. [j \in Jobs |-> ResultOf(j)]' = [j \in Jobs |-> ResultOf(j)]
  BY <1>3, ResultStays
<1> HIDE DEF S
<1>5. S \in SUBSET Jobs
  BY DEF S
<1>6. Lifecycle!GiveUp(S)
  BY <1>1, <1>2, <1>3, <1>4, <1>5 DEF Lifecycle!GiveUp
<1> QED
  BY <1>5, <1>6

\* A worker write parks the job, finishes it or changes nothing its clients see.
LEMMA WriteRefines ==
  ASSUME IInv, NEW j \in Jobs, NEW t \in TokensGiven(j), WorkerWrites(j, t)
  PROVE  Lifecycle!Next \/ UNCHANGED Lifecycle!lifecycleVars
<1> USE DEF IInv, MayWrite, Holds
<1>1. CASE Heartbeat(j, t) \/ \E r \in {0, SessionOf(j)} : Session(j, t, SessionOf(j), r)
  BY <1>1, ViewStutters, SameView DEF Heartbeat, Session
<1>2. CASE Suspend(j, t)
  <2>1. attempts[j] \in Nat /\ attempts[j] # 0
    BY <1>2 DEF Suspend, TypeOK, TokenInv
  <2>2. [k \in Jobs |-> ResultOf(k)]' = [k \in Jobs |-> ResultOf(k)]
    BY <1>2, ResultStays DEF Suspend
  <2>3. Lifecycle!Park(j)
    BY <1>2, <2>1, <2>2 DEF Suspend, GivenBack, TypeOK, Phase, Lifecycle!Park
  <2> QED
    BY <2>3 DEF Lifecycle!Next
<1>3. ASSUME NEW outcome \in {"succeeded", "failed"}, Complete(j, t, outcome)
      PROVE  Lifecycle!Finish(j)
  <2>1. t = issued[j] /\ t # 0
    BY <1>3 DEF Complete, TypeOK, TokenInv
  <2>2. output'[j] = issued'[j] /\ output'[j] # 0
    BY <1>3, <2>1 DEF Complete, TypeOK
  <2>3. ResultOf(j)' = "last"
    BY <2>2 DEF ResultOf
  <2>4. \A k \in Jobs : k # j => ResultOf(k)' = ResultOf(k)
    BY <1>3, ResultStays DEF Complete, TypeOK
  <2>5. [k \in Jobs |-> ResultOf(k)]' = [[k \in Jobs |-> ResultOf(k)] EXCEPT ![j] = "last"]
    BY <2>3, <2>4
  <2>6. /\ Phase(status[j]) = "held"
        /\ [k \in Jobs |-> Phase(status[k])]'
               = [[k \in Jobs |-> Phase(status[k])] EXCEPT ![j] = "finished"]
    BY <1>3 DEF Complete, TypeOK, Phase
  <2> QED
    BY <1>3, <2>5, <2>6 DEF Complete, Lifecycle!Finish
<1> QED
  BY <1>1, <1>2, <1>3 DEF WorkerWrites, Lifecycle!Next

\* Every step of the board is a step of the life cycle or a stuttering one.
LEMMA NextRefines ==
  ASSUME IInv, [Next]_boardVars
  PROVE  [Lifecycle!Next]_(Lifecycle!lifecycleVars)
<1>1. CASE UNCHANGED boardVars
  BY <1>1, ViewStutters, SameView DEF boardVars, rowVars
<1>2. ASSUME NEW j \in Jobs, Create(j)
      PROVE  Lifecycle!Next
  <2>1. [k \in Jobs |-> ResultOf(k)]' = [k \in Jobs |-> ResultOf(k)]
    BY <1>2, ResultStays DEF Create
  <2>2. Lifecycle!Submit(j)
    BY <1>2, <2>1 DEF IInv, TypeOK, Create, Phase, Lifecycle!Submit
  <2> QED
    BY <2>2 DEF Lifecycle!Next
<1>3. ASSUME NEW j \in Jobs, Resume(j)
      PROVE  Lifecycle!Next
  <2>1. [k \in Jobs |-> ResultOf(k)]' = [k \in Jobs |-> ResultOf(k)]
    BY <1>3, ResultStays DEF Resume
  <2>2. Lifecycle!Unpark(j)
    BY <1>3, <2>1 DEF IInv, TypeOK, Resume, Phase, Lifecycle!Unpark
  <2> QED
    BY <2>2 DEF Lifecycle!Next
<1>4. ASSUME NEW j \in Jobs, LeaseExpires(j)
      PROVE  UNCHANGED Lifecycle!lifecycleVars
  BY <1>4, ViewStutters, SameView DEF LeaseExpires
<1>5. ASSUME NEW c \in Claimers, Claims(c)
      PROVE  Lifecycle!Next \/ UNCHANGED Lifecycle!lifecycleVars
  <2>1. ASSUME ClaimCommit(c) \/ ClaimRetire(c)
        PROVE  Lifecycle!Next
    BY <2>1, CommitRefines, RetireRefines DEF Lifecycle!Next
  <2>2. ASSUME NEW busy, NEW j \in Jobs,
               ClaimSelect(c, j, busy) \/ ClaimEmpty(c, busy) \/ ClaimAbort(c)
        PROVE  UNCHANGED Lifecycle!lifecycleVars
    BY <2>2, ViewStutters, SameView DEF ClaimSelect, ClaimEmpty, ClaimAbort, rowVars
  <2>3. ASSUME NEW busy, ClaimEmpty(c, busy) \/ ClaimAbort(c)
        PROVE  UNCHANGED Lifecycle!lifecycleVars
    BY <2>3, ViewStutters, SameView DEF ClaimEmpty, ClaimAbort, rowVars
  <2> QED
    BY <1>5, <2>1, <2>2, <2>3 DEF Claims
<1> QED
  BY <1>1, <1>2, <1>3, <1>4, <1>5, WriteRefines DEF Next

\* The board implements the life cycle its clients rely on.
THEOREM Refinement == Spec => ImplementsLifecycle
<1>1. Init => Lifecycle!Init
  BY InitRefines
<1>2. IInv /\ [Next]_boardVars => [Lifecycle!Next]_(Lifecycle!lifecycleVars)
  BY NextRefines
<1> QED
  BY <1>1, <1>2, Invariance, PTL DEF Spec, ImplementsLifecycle, Lifecycle!Spec

-----------------------------------------------------------------------------
(* The fleet.                                                              *)

\* Runs that may report a session yet.
MayReport(r, s) ==
    \/ r.pc = "report"
    \/ DriverOf[s] \in RemoteDrivers /\ r.pc \in {"launch", "up", "settle"}

\* What is true of a run r in slot s against the columns of the job table: its claim
\* was issued, and if it still holds the lease the session is the row's.
SoundRun(r, s, iss, st, tk, se) ==
    /\ r.pc # "free" => r.job \in Jobs /\ r.tok \in 1 .. iss[r.job]
    /\ MayReport(r, s) /\ st[r.job] = "running" /\ tk[r.job] = r.tok
       => r.sess = IF se[r.job] = 0 THEN tk[r.job] ELSE se[r.job]

RunOk(r, s) == SoundRun(r, s, issued, status, token, session)

RunInv == \A s \in Slots : RunOk(run[s], s)

SystemInv == IInv /\ SystemTypeOK /\ RunInv

-----------------------------------------------------------------------------
(* What a step of the board does to the claims that are out.               *)

HeldAfter(j, t) == status'[j] = "running" /\ token'[j] = t

SessionAfter(j) == IF session'[j] = 0 THEN token'[j] ELSE session'[j]

\* A lease held after a step of the board was held before it, and its session is the
\* same: the board never gives an old token back, nor another session to a run.
LEMMA BoardKeeps ==
  ASSUME IInv, [Next]_boardVars, NEW j \in Jobs, NEW t \in 1 .. issued[j]
  PROVE  /\ t \in 1 .. issued'[j]
         /\ HeldAfter(j, t) => Holds(j, t) /\ SessionAfter(j) = SessionOf(j)
<1> USE DEF IInv, Holds, SessionOf, HeldAfter, SessionAfter
<1>1. CASE UNCHANGED boardVars
  BY <1>1 DEF boardVars, rowVars
<1>2. ASSUME NEW k \in Jobs, Create(k) \/ Resume(k) \/ LeaseExpires(k)
      PROVE  /\ t \in 1 .. issued'[j]
             /\ HeldAfter(j, t) => Holds(j, t) /\ SessionAfter(j) = SessionOf(j)
  BY <1>2 DEF TypeOK, Create, Resume, LeaseExpires
<1>3. ASSUME NEW k \in Jobs, NEW u \in TokensGiven(k), WorkerWrites(k, u)
      PROVE  /\ t \in 1 .. issued'[j]
             /\ HeldAfter(j, t) => Holds(j, t) /\ SessionAfter(j) = SessionOf(j)
  <2>1. CASE Heartbeat(k, u)
    BY <2>1 DEF Heartbeat
  <2>2. ASSUME NEW r, Session(k, u, SessionOf(k), r)
        PROVE  /\ t \in 1 .. issued'[j]
               /\ HeldAfter(j, t) => Holds(j, t) /\ SessionAfter(j) = SessionOf(j)
    BY <2>2 DEF TypeOK, Session, MayWrite
  <2>3. CASE Suspend(k, u)
    BY <2>3 DEF TypeOK, Suspend
  <2>4. ASSUME NEW outcome \in {"succeeded", "failed"}, Complete(k, u, outcome)
        PROVE  /\ t \in 1 .. issued'[j]
               /\ HeldAfter(j, t) => Holds(j, t) /\ SessionAfter(j) = SessionOf(j)
    BY <2>4 DEF TypeOK, Complete
  <2> QED
    BY <1>3, <2>1, <2>2, <2>3, <2>4 DEF WorkerWrites
<1>4. ASSUME NEW c \in Claimers, Claims(c)
      PROVE  /\ t \in 1 .. issued'[j]
             /\ HeldAfter(j, t) => Holds(j, t) /\ SessionAfter(j) = SessionOf(j)
  <2>1. CASE ClaimRetire(c)
    BY <2>1 DEF TypeOK, ClaimRetire
  <2>2. CASE ClaimCommit(c)
    <3>1. lock[c] \in Jobs
      BY <2>2 DEF ClaimCommit, StageInv, TypeOK
    <3> QED
      BY <2>2, <3>1 DEF TypeOK, ClaimCommit
  <2> QED
    BY <1>4, <2>1, <2>2 DEF Claims, ClaimSelect, ClaimEmpty, ClaimAbort, rowVars
<1> QED
  BY <1>1, <1>2, <1>3, <1>4 DEF Next

\* A run that goes on as the same claim stays sound.
LEMMA SameRun ==
  ASSUME IInv, [Next]_boardVars, NEW s \in Slots, NEW r, NEW q, RunOk(r, s),
         q.pc # "free" => /\ r.pc # "free"
                          /\ q.job = r.job /\ q.tok = r.tok /\ q.sess = r.sess,
         MayReport(q, s) => MayReport(r, s) /\ q.pc # "free"
  PROVE  SoundRun(q, s, issued', status', token', session')
  BY BoardKeeps DEF RunOk, SoundRun, Holds, SessionOf, HeldAfter, SessionAfter

\* The run in slot s after a step is free, or goes on as the same claim.
Continues(s) ==
    /\ run'[s].pc # "free" => /\ run[s].pc # "free"
                              /\ run'[s].job = run[s].job
                              /\ run'[s].tok = run[s].tok
                              /\ run'[s].sess = run[s].sess
    /\ MayReport(run'[s], s) => MayReport(run[s], s) /\ run'[s].pc # "free"

\* Runs stay sound when all of them go on or end.
LEMMA RunInvStep ==
  ASSUME IInv, RunInv, [Next]_boardVars, \A s \in Slots : Continues(s)
  PROVE  RunInv'
<1> SUFFICES ASSUME NEW s \in Slots PROVE RunOk(run[s], s)'
  BY DEF RunInv
<1>1. RunOk(run[s], s) /\ Continues(s)
  BY DEF RunInv
<1>2. SoundRun(run'[s], s, issued', status', token', session')
  BY <1>1, SameRun DEF Continues
<1> QED
  BY <1>2 DEF RunOk, SoundRun, MayReport

\* A step that leaves a run alone lets it go on.
LEMMA StillContinues == ASSUME UNCHANGED run PROVE \A s \in Slots : Continues(s)
  BY DEF Continues, MayReport

-----------------------------------------------------------------------------
(* The actions, one group a lemma: each is a step of the board or none, and *)
(* keeps the types and the runs.                                           *)

Kept == [Next]_boardVars /\ SystemTypeOK' /\ RunInv'

\* A board that did not move, or that made one of its steps, keeps its own types.
LEMMA BoardTypes == ASSUME IInv, [Next]_boardVars PROVE TypeOK'
  BY NextIInv DEF IInv

\* Inserts, resumes and expiring leases.
LEMMA BoardAloneKept == ASSUME SystemInv, NEW j \in Jobs, BoardAlone(j) PROVE Kept
<1>1. [Next]_boardVars
  BY DEF BoardAlone, Next
<1>2. SystemTypeOK'
  BY <1>1, BoardTypes DEF SystemInv, SystemTypeOK, BoardAlone, driverVars
<1>3. RunInv'
  BY <1>1, RunInvStep, StillContinues DEF SystemInv, BoardAlone, driverVars
<1> QED
  BY <1>1, <1>2, <1>3 DEF Kept

\* Claims that bring no run to a driver.
LEMMA QuietClaimKept ==
  ASSUME SystemInv, NEW c \in Claimers,
         \/ \E d \in Drivers : Ask(d, c)
         \/ Select(c) \/ NothingToClaim(c) \/ ClaimFails(c) \/ AnswerLost(c)
  PROVE  Kept
<1>1. Claims(c)
  <2>1. SUBSET Busy \subseteq SUBSET {j \in Jobs : status[j] = "running"}
    BY DEF Busy
  <2> QED
    BY <2>1 DEF Ask, Select, NothingToClaim, ClaimFails, AnswerLost, Claims
<1>2. [Next]_boardVars
  BY <1>1 DEF Next
<1>3. SystemTypeOK'
  BY <1>2, BoardTypes
     DEF SystemInv, SystemTypeOK, Ask, Select, NothingToClaim, ClaimFails, AnswerLost, driverVars
<1>4. RunInv'
  BY <1>2, RunInvStep, StillContinues
     DEF SystemInv, Ask, Select, NothingToClaim, ClaimFails, AnswerLost, driverVars
<1> QED
  BY <1>2, <1>3, <1>4 DEF Kept

\* The claim that starts a run: its session is the one the row has, or the one the
\* row will be given.
LEMMA AnswerKept == ASSUME SystemInv, NEW c \in Claimers, Answer(c) PROVE Kept
<1> USE DEF SystemInv
<1>1. [Next]_boardVars
  BY DEF Answer, Claims, Next
<1> DEFINE d == asker[c]
           j == lock[c]
<1>2. d \in Drivers
  BY DEF Answer, SystemTypeOK
<1>3. j \in Jobs /\ status[j] \in {"queued", "running"}
  BY DEF Answer, ClaimCommit, IInv, StageInv, ClaimsAreExclusive, TypeOK, Claimable
<1>4. PICK f \in FreeSlots(d) : run' = [run EXCEPT ![f] = NewRun(d, j)]
  BY DEF Answer
<1>5. f \in Slots /\ DriverOf[f] = d
  BY <1>4 DEF FreeSlots, SlotsOf
<1>6. KeptSession(j) \in Nat /\ issued[j] \in Nat
  BY <1>3 DEF IInv, TypeOK, KeptSession
<1>7. /\ issued' = [issued EXCEPT ![j] = @ + 1]
      /\ session' = [session EXCEPT ![j] = KeptSession(j)]
      /\ token' = [token EXCEPT ![j] = issued[j] + 1]
  BY DEF Answer, ClaimCommit
<1>8. issued'[j] = issued[j] + 1 /\ session'[j] = KeptSession(j) /\ token'[j] = issued[j] + 1
  BY <1>3, <1>7 DEF IInv, TypeOK
<1> DEFINE n == NewRun(d, j)
<1>9. n \in Runs
  <2>1. n.sess \in {0, issued[j] + 1, KeptSession(j)}
    BY DEF NewRun
  <2> QED
    BY <1>3, <1>6, <2>1 DEF NewRun, Runs
<1>10. SoundRun(n, f, issued', status', token', session')
  <2>1. n.job = j /\ n.tok = issued[j] + 1
    BY DEF NewRun
  <2>2. MayReport(n, f) => d \notin OpencodeDrivers
    BY <1>5, ConfigAssumption DEF MayReport, NewRun, Minted
  <2>3. d \notin OpencodeDrivers =>
            n.sess = IF KeptSession(j) = 0 THEN issued[j] + 1 ELSE KeptSession(j)
    BY DEF NewRun, Minted
  <2> QED
    BY <1>3, <1>6, <1>8, <2>1, <2>2, <2>3 DEF SoundRun
<1> HIDE DEF d, j, n
<1>11. SystemTypeOK'
  <2>1. run' \in [Slots -> Runs]
    BY <1>4, <1>9 DEF SystemTypeOK, n
  <2> QED
    BY <1>1, <2>1, BoardTypes DEF SystemTypeOK, Answer
<1>12. RunInv'
  <2> SUFFICES ASSUME NEW s \in Slots PROVE RunOk(run[s], s)'
    BY DEF RunInv
  <2>1. CASE s = f
    <3>1. run'[s] = n
      BY <1>4, <2>1 DEF SystemTypeOK, n
    <3> QED
      BY <1>10, <2>1, <3>1 DEF RunOk, SoundRun, MayReport
  <2>2. CASE s # f
    <3>1. Continues(s) /\ RunOk(run[s], s)
      BY <1>4, <2>2 DEF Continues, MayReport, RunInv
    <3>2. SoundRun(run'[s], s, issued', status', token', session')
      BY <1>1, <3>1, SameRun DEF Continues
    <3> QED
      BY <3>2 DEF RunOk, SoundRun, MayReport
  <2> QED
    BY <2>1, <2>2
<1> QED
  BY <1>1, <1>11, <1>12 DEF Kept

\* What becomes of a run when its driver ends.
LEMMA ExitRuns ==
  ASSUME SystemTypeOK, NEW d \in Drivers, StopClaiming(d) \/ Exit(d) \/ Restart(d), NEW s \in Slots
  PROVE  \/ run'[s] = run[s]
         \/ run'[s] = Idle
         \/ /\ run[s].pc = "launch" /\ run'[s].pc = "orphan"
            /\ run'[s].job = run[s].job /\ run'[s].tok = run[s].tok
            /\ run'[s].sess = run[s].sess /\ run'[s].exit = run[s].exit
<1>1. run'[s] = run[s] \/ run'[s] = Idle \/ (At(s, "launch") /\ run'[s] = Orphan(run[s]))
  <2>1. CASE StopClaiming(d) \/ Restart(d)
    BY <2>1 DEF StopClaiming, Restart
  <2>2. CASE Exit(d)
    BY <2>2 DEF Exit, SlotsOf
  <2> QED
    BY <2>1, <2>2
<1>2. run[s] \in Runs
  BY DEF SystemTypeOK
<1>3. /\ Orphan(run[s]).pc = "orphan" /\ Orphan(run[s]).job = run[s].job
      /\ Orphan(run[s]).tok = run[s].tok /\ Orphan(run[s]).sess = run[s].sess
      /\ Orphan(run[s]).exit = run[s].exit
  BY <1>2 DEF Orphan, Runs
<1> QED
  BY <1>1, <1>3 DEF At

\* A step of the processes alone: a signal, an exit, a start.
LEMMA ProcessKept ==
  ASSUME SystemInv, NEW d \in Drivers, StopClaiming(d) \/ Exit(d) \/ Restart(d)
  PROVE  Kept
<1> USE DEF SystemInv
<1>1. [Next]_boardVars
  BY DEF StopClaiming, Exit, Restart
<1>2. \A s \in Slots : Continues(s)
  BY ExitRuns DEF Continues, MayReport, Idle
<1>3. CASE StopClaiming(d) \/ Restart(d)
  <2>1. SystemTypeOK'
    BY <1>1, <1>3, BoardTypes DEF SystemTypeOK, StopClaiming, Restart
  <2> QED
    BY <1>1, <1>2, <2>1, RunInvStep DEF Kept
<1>4. CASE Exit(d)
  <2>1. PICK late \in SUBSET {s \in SlotsOf(d) : At(s, "launch")} :
          run' = [s \in Slots |-> IF s \in late THEN Orphan(run[s])
                                ELSE IF DriverOf[s] = d /\ ~At(s, "orphan") THEN Idle ELSE run[s]]
    BY <1>4 DEF Exit
  <2>2. run' \in [Slots -> Runs]
    <3>1. \A s \in Slots : Orphan(run[s]) \in Runs /\ Idle \in Runs
      BY DEF SystemTypeOK, Runs, Idle, Orphan
    <3> QED
      BY <2>1, <3>1 DEF SystemTypeOK
  <2>3. SystemTypeOK'
    BY <1>1, <1>4, <2>2, BoardTypes DEF SystemTypeOK, Exit
  <2> QED
    BY <1>1, <1>2, <2>3, RunInvStep DEF Kept
<1> QED
  BY <1>3, <1>4

\* A container that ends changes the exit of its run and nothing else of any run.
LEMMA EndedKeeps ==
  ASSUME run \in [Slots -> Runs], NEW d, NEW j, NEW code \in {"zero", "nonzero"}
  PROVE  /\ Ended(d, j, code) \in [Slots -> Runs]
         /\ \A s \in Slots : LET q == Ended(d, j, code)[s] IN
                /\ q.pc = run[s].pc /\ q.job = run[s].job /\ q.tok = run[s].tok /\ q.sess = run[s].sess
                /\ q.hb = run[s].hb
<1>1. ASSUME NEW s \in Slots
      PROVE  LET q == Ended(d, j, code)[s] IN
             /\ q \in Runs
             /\ q.pc = run[s].pc /\ q.job = run[s].job /\ q.tok = run[s].tok /\ q.sess = run[s].sess
             /\ q.hb = run[s].hb
  BY <1>1 DEF Ended, Runs
<1> QED
  BY <1>1 DEF Ended

\* Containers that end, and kills that land or fail.
LEMMA ContainerKept ==
  ASSUME SystemInv, NEW d \in Drivers, NEW j \in Jobs,
         ContainerExits(d, j) \/ KillLands(d, j) \/ KillFails(d, j)
  PROVE  Kept
<1> USE DEF SystemInv
<1>1. [Next]_boardVars
  BY DEF ContainerExits, KillLands, KillFails
<1>2. run' = run \/ \E code \in {"zero", "nonzero"} : run' = Ended(d, j, code)
  BY DEF ContainerExits, KillLands, KillFails
<1>3. run' \in [Slots -> Runs] /\ \A s \in Slots : Continues(s)
  BY <1>2, EndedKeeps DEF SystemTypeOK, Continues, MayReport
<1>4. UNCHANGED container \/ container' = [container EXCEPT ![d][j] = 0]
  BY DEF ContainerExits, KillLands, KillFails
<1>5. container' \in [Drivers -> [Jobs -> Nat]]
  <2>1. [container[d] EXCEPT ![j] = 0] \in [Jobs -> Nat]
    BY DEF SystemTypeOK
  <2>2. UNCHANGED container \/ container' = [container EXCEPT ![d] = [container[d] EXCEPT ![j] = 0]]
    BY <1>4
  <2> QED
    BY <2>1, <2>2 DEF SystemTypeOK
<1>6. kills' \subseteq kills /\ UNCHANGED <<loop, asker, started>>
  BY DEF ContainerExits, KillLands, KillFails
<1>7. SystemTypeOK'
  BY <1>1, <1>3, <1>5, <1>6, BoardTypes DEF SystemTypeOK
<1> QED
  BY <1>1, <1>3, <1>7, RunInvStep DEF Kept

\* Changing how far one run has got keeps the runs typed and lets all of them go on.
LEMMA OneRun ==
  ASSUME run \in [Slots -> Runs], NEW s \in Slots, NEW q \in Runs,
         run' = [run EXCEPT ![s] = q],
         \/ q = Idle
         \/ /\ q.pc # "free" => run[s].pc # "free"
            /\ q.job = run[s].job /\ q.tok = run[s].tok /\ q.sess = run[s].sess,
         MayReport(q, s) => MayReport(run[s], s)
  PROVE  run' \in [Slots -> Runs] /\ \A r \in Slots : Continues(r)
<1>1. run' \in [Slots -> Runs]
  OBVIOUS
<1>2. ASSUME NEW r \in Slots, r # s PROVE Continues(r)
  BY <1>2 DEF Continues, MayReport
<1>3. Continues(s)
  <2>1. run'[s] = q
    OBVIOUS
  <2> QED
    BY <2>1 DEF Continues, MayReport, Idle
<1> QED
  BY <1>1, <1>2, <1>3

\* A run's own steps that send nothing to the board, or nothing that arrives.
LEMMA LocalKept ==
  ASSUME SystemInv, NEW s \in Slots,
         \/ SessionNotReported(s) \/ ContainerUp(s) \/ LaunchRefused(s) \/ SpawnError(s)
         \/ OrphanUp(s) \/ OrphanFails(s)
         \/ TimerFires(s) \/ LeaseLost(s) \/ HeartbeatKills(s) \/ HeartbeatKillFails(s)
         \/ Closed(s) \/ Settle(s) \/ NotReported(s)
  PROVE  Kept
<1> USE DriverOfAssumption DEF SystemInv
<1>1. [Next]_boardVars
  BY DEF SessionNotReported, ContainerUp, OrphanUp, OrphanFails, Starts, LaunchRefused, SpawnError, TimerFires, LeaseLost,
         HeartbeatKills, HeartbeatKillFails, Closed, Settle, NotReported
<1> DEFINE r == run[s]
<1>2. r \in Runs
  BY DEF SystemTypeOK
<1>3. r.pc # "free" => r.job \in Jobs /\ r.tok \in Nat /\ r.sess \in Nat
  BY <1>2 DEF RunInv, RunOk, SoundRun, Runs
<1>4. run' \in [Slots -> Runs] /\ \A x \in Slots : Continues(x)
  <2>1. CASE HeartbeatKills(s)
    <3> DEFINE e == Ended(DriverOf[s], r.job, "nonzero")
    <3>1. e \in [Slots -> Runs] /\ \A x \in Slots :
             e[x].pc = run[x].pc /\ e[x].job = run[x].job /\ e[x].tok = run[x].tok /\ e[x].sess = run[x].sess
      BY EndedKeeps DEF SystemTypeOK
    <3>2. run' = [e EXCEPT ![s].hb = "ended"]
      BY <2>1 DEF HeartbeatKills
    <3> HIDE DEF e
    <3>3. run' \in [Slots -> Runs]
      <4>1. [e[s] EXCEPT !.hb = "ended"] \in Runs
        BY <3>1 DEF Runs
      <4>2. run' = [e EXCEPT ![s] = [e[s] EXCEPT !.hb = "ended"]]
        BY <3>2
      <4> QED
        BY <3>1, <4>1, <4>2
    <3>4. \A x \in Slots : /\ run'[x].pc = run[x].pc /\ run'[x].job = run[x].job
                           /\ run'[x].tok = run[x].tok /\ run'[x].sess = run[x].sess
      BY <3>1, <3>2 DEF Runs
    <3> QED
      BY <3>3, <3>4 DEF Continues, MayReport
  <2>2. CASE HeartbeatKillFails(s)
    <3> DEFINE q == [r EXCEPT !.hb = "ended"]
    <3>1. q \in Runs /\ q.job = r.job /\ q.tok = r.tok /\ q.sess = r.sess
      BY <1>2 DEF Runs
    <3>2. run' = [run EXCEPT ![s] = q] /\ (q.pc # "free" => r.pc # "free")
      BY <1>2, <2>2 DEF HeartbeatKillFails, Runs
    <3>3. MayReport(q, s) => MayReport(r, s)
      BY <1>2, <2>2 DEF HeartbeatKillFails, Runs, MayReport
    <3> QED
      BY <3>1, <3>2, <3>3, OneRun DEF SystemTypeOK
  <2>3. CASE LeaseLost(s)
    <3> DEFINE q == [r EXCEPT !.hb = "killing"]
    <3>1. q \in Runs /\ q.job = r.job /\ q.tok = r.tok /\ q.sess = r.sess
      BY <1>2 DEF Runs
    <3>2. run' = [run EXCEPT ![s] = q] /\ (q.pc # "free" => r.pc # "free")
      BY <1>2, <2>3 DEF LeaseLost, Beating, Runs
    <3>3. MayReport(q, s) => MayReport(r, s)
      BY <1>2, <2>3 DEF LeaseLost, Beating, Runs, MayReport
    <3> QED
      BY <3>1, <3>2, <3>3, OneRun DEF SystemTypeOK
  <2>4. CASE SessionNotReported(s)
    <3> DEFINE q == [r EXCEPT !.pc = "launch"]
    <3>1. q \in Runs /\ q.job = r.job /\ q.tok = r.tok /\ q.sess = r.sess
      BY <1>2 DEF Runs
    <3>2. run' = [run EXCEPT ![s] = q] /\ (q.pc # "free" => r.pc # "free")
      BY <1>2, <2>4 DEF SessionNotReported, At, Goto, Runs
    <3>3. MayReport(q, s) => MayReport(r, s)
      BY <1>2, <2>4 DEF SessionNotReported, At, Goto, Runs, MayReport
    <3> QED
      BY <3>1, <3>2, <3>3, OneRun DEF SystemTypeOK
  <2>5. CASE ContainerUp(s)
    <3> DEFINE q == [r EXCEPT !.pc = "up"]
    <3>1. q \in Runs /\ q.job = r.job /\ q.tok = r.tok /\ q.sess = r.sess
      BY <1>2 DEF Runs
    <3>2. run' = [run EXCEPT ![s] = q] /\ (q.pc # "free" => r.pc # "free")
      BY <1>2, <2>5 DEF ContainerUp, Starts, At, Runs
    <3>3. MayReport(q, s) => MayReport(r, s)
      BY <1>2, <2>5 DEF ContainerUp, Starts, At, Runs, MayReport
    <3> QED
      BY <3>1, <3>2, <3>3, OneRun DEF SystemTypeOK
  <2>6. CASE LaunchRefused(s)
    <3> DEFINE q == [r EXCEPT !.pc = "up", !.exit = "nonzero"]
    <3>1. q \in Runs /\ q.job = r.job /\ q.tok = r.tok /\ q.sess = r.sess
      BY <1>2 DEF Runs
    <3>2. run' = [run EXCEPT ![s] = q] /\ (q.pc # "free" => r.pc # "free")
      BY <1>2, <2>6 DEF LaunchRefused, At, Runs
    <3>3. MayReport(q, s) => MayReport(r, s)
      BY <1>2, <2>6 DEF LaunchRefused, At, Runs, MayReport
    <3> QED
      BY <3>1, <3>2, <3>3, OneRun DEF SystemTypeOK
  <2>7. CASE SpawnError(s)
    <3> DEFINE q == [r EXCEPT !.pc = "settle", !.exit = "error"]
    <3>1. q \in Runs /\ q.job = r.job /\ q.tok = r.tok /\ q.sess = r.sess
      BY <1>2 DEF Runs
    <3>2. run' = [run EXCEPT ![s] = q] /\ (q.pc # "free" => r.pc # "free")
      BY <1>2, <2>7 DEF SpawnError, At, Runs
    <3>3. MayReport(q, s) => MayReport(r, s)
      BY <1>2, <2>7 DEF SpawnError, At, Runs, MayReport
    <3> QED
      BY <3>1, <3>2, <3>3, OneRun DEF SystemTypeOK
  <2>8. CASE TimerFires(s)
    <3> DEFINE q == [r EXCEPT !.bound = TRUE]
    <3>1. q \in Runs /\ q.job = r.job /\ q.tok = r.tok /\ q.sess = r.sess
      BY <1>2 DEF Runs
    <3>2. run' = [run EXCEPT ![s] = q] /\ (q.pc # "free" => r.pc # "free")
      BY <1>2, <2>8 DEF TimerFires, At, Runs
    <3>3. MayReport(q, s) => MayReport(r, s)
      BY <1>2, <2>8 DEF TimerFires, At, Runs, MayReport
    <3> QED
      BY <3>1, <3>2, <3>3, OneRun DEF SystemTypeOK
  <2>9. CASE Closed(s)
    <3> DEFINE q == [r EXCEPT !.pc = "settle"]
    <3>1. q \in Runs /\ q.job = r.job /\ q.tok = r.tok /\ q.sess = r.sess
      BY <1>2 DEF Runs
    <3>2. run' = [run EXCEPT ![s] = q] /\ (q.pc # "free" => r.pc # "free")
      BY <1>2, <2>9 DEF Closed, Exited, At, Goto, Runs
    <3>3. MayReport(q, s) => MayReport(r, s)
      BY <1>2, <2>9 DEF Closed, Exited, At, Goto, Runs, MayReport
    <3> QED
      BY <3>1, <3>2, <3>3, OneRun DEF SystemTypeOK
  <2>10. CASE Settle(s) \/ NotReported(s)
    <3> DEFINE u == [r EXCEPT !.pc = "suspend"]
               v == [r EXCEPT !.pc = "complete"]
    <3>1. /\ u \in Runs /\ u.job = r.job /\ u.tok = r.tok /\ u.sess = r.sess /\ u.pc = "suspend"
          /\ v \in Runs /\ v.job = r.job /\ v.tok = r.tok /\ v.sess = r.sess /\ v.pc = "complete"
      BY <1>2 DEF Runs
    <3>2. Idle \in Runs /\ Idle.pc = "free"
      BY DEF Idle, Runs
    <3>3. r.pc # "free" /\ \E q \in {Idle, u, v} : run' = [run EXCEPT ![s] = q]
      BY <2>10 DEF Settle, NotReported, At, Goto
    <3> HIDE DEF u, v
    <3>4. ASSUME NEW q \in {Idle, u, v}, run' = [run EXCEPT ![s] = q]
          PROVE  run' \in [Slots -> Runs] /\ \A x \in Slots : Continues(x)
      <4>1. q \in Runs /\ q.pc \in {"free", "suspend", "complete"}
        BY <3>1, <3>2, <3>4
      <4>2. ~MayReport(q, s)
        BY <4>1 DEF MayReport
      <4>3. q = Idle \/ (q.job = r.job /\ q.tok = r.tok /\ q.sess = r.sess)
        BY <3>1, <3>4
      <4> QED
        BY <3>3, <3>4, <4>1, <4>2, <4>3, OneRun DEF SystemTypeOK
    <3> QED
      BY <3>3, <3>4
  <2>11. CASE OrphanUp(s) \/ OrphanFails(s)
    <3>1. Idle \in Runs /\ ~MayReport(Idle, s)
      BY DEF Idle, Runs, MayReport
    <3>2. run' = [run EXCEPT ![s] = Idle]
      BY <2>11 DEF OrphanUp, OrphanFails, Starts
    <3> QED
      BY <3>1, <3>2, OneRun DEF SystemTypeOK
  <2> QED
    BY <2>1, <2>2, <2>3, <2>4, <2>5, <2>6, <2>7, <2>8, <2>9, <2>10, <2>11
<1>5. UNCHANGED <<loop, asker>>
  BY DEF SessionNotReported, ContainerUp, OrphanUp, OrphanFails, Starts, LaunchRefused, SpawnError, TimerFires, LeaseLost,
         HeartbeatKills, HeartbeatKillFails, Closed, Settle, NotReported
<1>6. kills' \subseteq Drivers \X Jobs
  <2>1. CASE TimerFires(s)
    BY <1>2, <1>3, <2>1 DEF TimerFires, TimerKill, At, SystemTypeOK
  <2> QED
    BY <2>1 DEF SessionNotReported, ContainerUp, OrphanUp, OrphanFails, Starts, LaunchRefused, SpawnError, LeaseLost,
         HeartbeatKills, HeartbeatKillFails, Closed, Settle, NotReported, SystemTypeOK
<1>7. container' \in [Drivers -> [Jobs -> Nat]] /\ started' \in [Jobs -> SUBSET (Nat \X Nat)]
  <2>1. CASE ContainerUp(s) \/ OrphanUp(s)
    <3>1. r.job \in Jobs /\ r.tok \in Nat /\ r.sess \in Nat
      BY <1>3, <2>1 DEF ContainerUp, OrphanUp, At
    <3>2. /\ container' = [container EXCEPT ![DriverOf[s]][r.job] = r.tok]
          /\ started' = [started EXCEPT ![r.job] = @ \cup {<<r.tok, r.sess>>}]
      BY <2>1 DEF ContainerUp, OrphanUp, Starts
    <3> QED
      BY <3>1, <3>2 DEF SystemTypeOK
  <2>2. CASE HeartbeatKills(s)
    BY <2>2 DEF HeartbeatKills, SystemTypeOK
  <2> QED
    BY <2>1, <2>2 DEF SessionNotReported, OrphanFails, LaunchRefused, SpawnError, TimerFires, LeaseLost,
         HeartbeatKillFails, Closed, Settle, NotReported, SystemTypeOK
<1>8. SystemTypeOK'
  BY <1>1, <1>4, <1>5, <1>6, <1>7, BoardTypes DEF SystemTypeOK
<1> QED
  BY <1>1, <1>4, <1>8, RunInvStep DEF Kept

\* Reports and beats that arrive: the board could have been called with them by any
\* worker that was given the token.
LEMMA ReportKept ==
  ASSUME SystemInv, NEW s \in Slots,
         SessionReported(s) \/ RemoteReported(s) \/ Beat(s) \/ Reported(s)
  PROVE  Kept
<1> USE DEF SystemInv
<1> DEFINE j == run[s].job
           t == run[s].tok
<1>1. j \in Jobs /\ t \in TokensGiven(j)
  BY DEF SessionReported, RemoteReported, Beat, Beating, Reported, At, RunInv, RunOk, SoundRun,
         TokensGiven
<1>2. WorkerWrites(j, t)
  <2>1. CASE SessionReported(s)
    <3>1. Session(j, t, run[s].sess, 0) /\ Holds(j, t) /\ MayReport(run[s], s)
      BY <2>1 DEF SessionReported, Session, MayWrite, MayReport, At
    <3>2. run[s].sess = SessionOf(j)
      BY <3>1 DEF RunInv, RunOk, SoundRun, Holds, SessionOf
    <3> QED
      BY <3>1, <3>2 DEF WorkerWrites
  <2>2. CASE RemoteReported(s)
    <3>1. Session(j, t, run[s].sess, run[s].sess) /\ Holds(j, t) /\ MayReport(run[s], s)
      BY <2>2 DEF RemoteReported, Session, MayWrite, MayReport
    <3>2. run[s].sess = SessionOf(j)
      BY <3>1 DEF RunInv, RunOk, SoundRun, Holds, SessionOf
    <3> QED
      BY <3>1, <3>2 DEF WorkerWrites
  <2>3. CASE Beat(s)
    BY <2>3 DEF Beat, WorkerWrites
  <2>4. CASE Reported(s)
    BY <2>4 DEF Reported, Outcome, WorkerWrites
  <2> QED
    BY <2>1, <2>2, <2>3, <2>4
<1>3. [Next]_boardVars
  BY <1>1, <1>2 DEF Next
<1>4. run' \in [Slots -> Runs] /\ \A r \in Slots : Continues(r)
  <2>1. CASE SessionReported(s)
    <3> DEFINE r == run[s]
               q == [r EXCEPT !.pc = "launch"]
    <3>1. r \in Runs
      BY DEF SystemTypeOK
    <3>2. q \in Runs /\ q.pc = "launch" /\ q.job = r.job /\ q.tok = r.tok /\ q.sess = r.sess
      BY <3>1 DEF Runs
    <3>3. run' = [run EXCEPT ![s] = q] /\ r.pc = "report"
      BY <2>1 DEF SessionReported, At, Goto
    <3>4. MayReport(r, s)
      BY <3>3 DEF MayReport
    <3> HIDE DEF q
    <3> QED
      BY <3>2, <3>3, <3>4, OneRun DEF SystemTypeOK
  <2>2. CASE RemoteReported(s) \/ Beat(s)
    BY <2>2, StillContinues DEF RemoteReported, Beat, driverVars, SystemTypeOK
  <2>3. CASE Reported(s)
    BY <2>3 DEF Reported, Idle, SystemTypeOK, Runs, Continues, MayReport
  <2> QED
    BY <2>1, <2>2, <2>3
<1>5. SystemTypeOK'
  BY <1>3, <1>4, BoardTypes
     DEF SystemTypeOK, SessionReported, RemoteReported, Beat, Reported, driverVars
<1> QED
  BY <1>3, <1>4, <1>5, RunInvStep DEF Kept

-----------------------------------------------------------------------------
(* Theorems                                                                *)

\* The invariant holds of a fleet that has just been started.
LEMMA InitSystemInv == SystemInit => SystemInv
<1> SUFFICES ASSUME SystemInit PROVE SystemInv
  OBVIOUS
<1>1. IInv
  BY InitIInv DEF SystemInit
<1>2. SystemTypeOK
  BY <1>1 DEF IInv, SystemInit, SystemTypeOK, Runs, Idle
<1>3. RunInv
  BY DEF SystemInit, RunInv, RunOk, SoundRun, MayReport, Idle
<1> QED
  BY <1>1, <1>2, <1>3 DEF SystemInv

\* Every step of the fleet keeps the invariant and is one of the board, or none.
LEMMA NextKept == ASSUME SystemInv, [SystemNext]_systemVars PROVE Kept
<1>1. CASE UNCHANGED systemVars
  <2>1. UNCHANGED <<boardVars, driverVars>>
    BY <1>1 DEF systemVars
  <2>2. SystemTypeOK'
    BY <2>1, BoardTypes DEF SystemInv, SystemTypeOK, driverVars
  <2> QED
    BY <2>1, <2>2, RunInvStep, StillContinues DEF Kept, SystemInv, driverVars
<1>2. ASSUME NEW c \in Claimers, ClaimSteps(c) PROVE Kept
  BY <1>2, QuietClaimKept, AnswerKept DEF ClaimSteps
<1>3. ASSUME NEW s \in Slots,
             RunSteps(s) \/ Beat(s) \/ LeaseLost(s) \/ TimerFires(s) \/ RemoteReported(s)
      PROVE  Kept
  BY <1>3, LocalKept, ReportKept DEF RunSteps
<1> QED
  BY <1>1, <1>2, <1>3, BoardAloneKept, ProcessKept, ContainerKept DEF SystemNext

\* The invariant, in every state of the fleet.
THEOREM SystemInvariance == SystemSpec => []SystemInv
<1>1. SystemInv /\ [SystemNext]_systemVars => SystemInv'
  <2> SUFFICES ASSUME SystemInv, [SystemNext]_systemVars PROVE SystemInv'
    OBVIOUS
  <2>1. Kept
    BY NextKept
  <2> QED
    BY <2>1, NextIInv DEF Kept, SystemInv
<1> QED
  BY <1>1, InitSystemInv, PTL DEF SystemSpec

\* Every variable of the fleet keeps its type.
THEOREM SystemTypeCorrect == SystemSpec => []SystemTypeOK
<1>1. SystemInv => SystemTypeOK
  BY DEF SystemInv
<1> QED
  BY <1>1, SystemInvariance, PTL

\* Whatever the fleet does, the board alone allows for.
THEOREM FleetDrivesTheBoard == SystemSpec => DrivesTheBoard
<1>1. SystemInit => Init
  BY DEF SystemInit
<1>2. SystemInv /\ [SystemNext]_systemVars => [Next]_boardVars
  BY NextKept DEF Kept
<1> QED
  BY <1>1, <1>2, SystemInvariance, PTL DEF SystemSpec, DrivesTheBoard, Spec

\* Hence only the run that was claimed last leaves a result, parking is free, leases
\* are not stolen and results are final, with real drivers too.
THEOREM FleetIsFenced ==
  SystemSpec => [](ResultIsTheLastRuns /\ ParkingIsFree) /\ LeaseNeverStolen /\ SettledForever
<1>1. IInv => ResultIsTheLastRuns /\ ParkingIsFree
  BY DEF IInv
<1> QED
  BY <1>1, Invariance, NoTheft, Final, FleetDrivesTheBoard, PTL DEF DrivesTheBoard

-----------------------------------------------------------------------------
(* A success is that of a run whose container came up                      *)

\* A container of attempt t of job j has come up, with a session that was named by a claim.
Ran(j, t) == \E x \in 0 .. issued[j] : <<t, x>> \in started[j]

\* A row's session was named by one of its claims.
SessionsIssued == \A j \in Jobs : session[j] \in 0 .. issued[j]

\* So was that of a run.
SessionGiven == \A s \in Slots : run[s].pc # "free" => run[s].sess \in 0 .. issued[run[s].job]

\* A container that is there has come up, and an exit of zero is that of one.
ContainersRan == \A d \in Drivers, j \in Jobs : container[d][j] # 0 => Ran(j, container[d][j])

ExitsRan ==
    \A s \in Slots : run[s].exit = "zero" => run[s].pc # "free" /\ Ran(run[s].job, run[s].tok)

RanInv == SessionsIssued /\ SessionGiven /\ ContainersRan /\ ExitsRan /\ SucceededMeansRan

\* The board never takes a claim back.
LEMMA IssuedGrows ==
  ASSUME IInv, [Next]_boardVars, NEW j \in Jobs
  PROVE  issued[j] \in Nat /\ issued'[j] \in Nat /\ issued[j] <= issued'[j]
<1>1. issued[j] \in Nat /\ issued'[j] \in Nat
  BY NextIInv DEF IInv, TypeOK
<1>2. CASE issued[j] # 0
  <2>1. issued[j] \in 1 .. issued[j]
    BY <1>1, <1>2
  <2>2. issued[j] \in 1 .. issued'[j]
    BY <2>1, BoardKeeps
  <2> QED
    BY <1>1, <2>2
<1> QED
  BY <1>1, <1>2

\* The board writes a session that it has been given for a claim, or that the row has.
LEMMA SessionsStep ==
  ASSUME IInv, [Next]_boardVars, SessionsIssued
  PROVE  SessionsIssued'
<1> USE DEF IInv, SessionsIssued
<1>0. \A j \in Jobs : issued[j] \in Nat /\ issued'[j] \in Nat /\ issued[j] <= issued'[j]
  BY IssuedGrows
<1>1. CASE UNCHANGED session
  BY <1>0, <1>1
<1>2. ASSUME NEW k \in Jobs, NEW u \in TokensGiven(k), NEW r, Session(k, u, SessionOf(k), r)
      PROVE  SessionsIssued'
  BY <1>0, <1>2 DEF TypeOK, Session, SessionOf, TokenInv
<1>3. ASSUME NEW c \in Claimers, ClaimCommit(c)
      PROVE  SessionsIssued'
  BY <1>0, <1>3 DEF TypeOK, ClaimCommit, KeptSession
<1> QED
  BY <1>1, <1>2, <1>3
     DEF Next, boardVars, rowVars, Create, Resume, LeaseExpires, WorkerWrites, Heartbeat, Suspend,
         Complete, Claims, ClaimRetire, ClaimSelect, ClaimEmpty, ClaimAbort

\* A run goes on as the same claim, and its exit is what it was or that of the container it has.
Follows(s) ==
    /\ run'[s].pc # "free" => /\ run[s].pc # "free"
                              /\ run'[s].job = run[s].job
                              /\ run'[s].tok = run[s].tok
                              /\ run'[s].sess = run[s].sess
    /\ run'[s].exit = "zero" =>
           /\ run'[s].pc # "free"
           /\ \/ run[s].exit = "zero"
              \/ /\ container[DriverOf[s]][run[s].job] # 0
                 /\ run[s].tok = container[DriverOf[s]][run[s].job]

\* What a container that ends leaves to its runs.
LEMMA EndedFollows ==
  ASSUME SystemInv, ExitsRan, NEW d \in Drivers, NEW j, NEW code \in {"zero", "nonzero"},
         container[d][j] # 0 \/ code = "nonzero",
         NEW s \in Slots, NEW q, q \in {run[s].hb, "ended"}, run'[s] = [Ended(d, j, code)[s] EXCEPT !.hb = q]
  PROVE  Follows(s)
<1>1. run[s] \in Runs
  BY DEF SystemInv, SystemTypeOK
<1>2. run[s].exit = "zero" => run[s].pc # "free"
  BY DEF ExitsRan
<1>3. CASE DriverOf[s] = d /\ run[s].job = j /\ run[s].tok = container[d][j] /\ At(s, "up")
  BY <1>1, <1>2, <1>3 DEF Ended, Runs, Follows, At
<1>4. CASE ~(DriverOf[s] = d /\ run[s].job = j /\ run[s].tok = container[d][j] /\ At(s, "up"))
  BY <1>1, <1>2, <1>4 DEF Ended, Runs, Follows
<1> QED
  BY <1>3, <1>4

\* A run that is alone in being changed, and not in its exit unless for the worse.
LEMMA OneFollows ==
  ASSUME SystemInv, ExitsRan, NEW s \in Slots, NEW q, run' = [run EXCEPT ![s] = q],
         \/ q = Idle
         \/ /\ q.pc = "free" <=> run[s].pc = "free"
            /\ q.job = run[s].job /\ q.tok = run[s].tok /\ q.sess = run[s].sess
            /\ q.exit \in {run[s].exit, "nonzero", "error"}
  PROVE  \A x \in Slots : Follows(x)
<1>1. run'[s] = q
  BY DEF SystemInv, SystemTypeOK
<1>2. Follows(s)
  BY <1>1 DEF Follows, Idle, ExitsRan
<1>3. ASSUME NEW x \in Slots, x # s PROVE Follows(x)
  BY <1>3 DEF Follows, ExitsRan
<1> QED
  BY <1>2, <1>3

\* Every step but the answer to a claim lets the runs go on, or ends them.
LEMMA LocalFollows ==
  ASSUME SystemInv, ExitsRan, NEW s \in Slots,
         RunSteps(s) \/ Beat(s) \/ LeaseLost(s) \/ TimerFires(s) \/ RemoteReported(s)
  PROVE  \A x \in Slots : Follows(x)
<1> DEFINE r == run[s]
<1>1. r \in Runs
  BY DEF SystemInv, SystemTypeOK
<1>2. CASE UNCHANGED run
  BY <1>2 DEF Follows, ExitsRan
<1>3. ASSUME NEW step \in {"launch", "up", "settle", "suspend", "complete"}, r.pc # "free", Goto(s, step)
      PROVE  \A x \in Slots : Follows(x)
  <2> DEFINE q == [r EXCEPT !.pc = step]
  <2>1. q.pc # "free" /\ q.job = r.job /\ q.tok = r.tok /\ q.sess = r.sess /\ q.exit = r.exit
    BY <1>1 DEF Runs
  <2>2. run' = [run EXCEPT ![s] = q]
    BY <1>3 DEF Goto
  <2> QED
    BY <1>3, <2>1, <2>2, OneFollows
<1>4. CASE run' = [run EXCEPT ![s] = Idle]
  BY <1>4, OneFollows
<1>5. CASE LaunchRefused(s)
  <2> DEFINE q == [r EXCEPT !.pc = "up", !.exit = "nonzero"]
  <2>1. q.pc # "free" /\ q.job = r.job /\ q.tok = r.tok /\ q.sess = r.sess /\ q.exit = "nonzero"
    BY <1>1 DEF Runs
  <2>2. run' = [run EXCEPT ![s] = q] /\ r.pc # "free"
    BY <1>5 DEF LaunchRefused, At
  <2> QED
    BY <2>1, <2>2, OneFollows
<1>6. CASE SpawnError(s)
  <2> DEFINE q == [r EXCEPT !.pc = "settle", !.exit = "error"]
  <2>1. q.pc # "free" /\ q.job = r.job /\ q.tok = r.tok /\ q.sess = r.sess /\ q.exit = "error"
    BY <1>1 DEF Runs
  <2>2. run' = [run EXCEPT ![s] = q] /\ r.pc # "free"
    BY <1>6 DEF SpawnError, At
  <2> QED
    BY <2>1, <2>2, OneFollows
<1>7. CASE TimerFires(s)
  <2> DEFINE q == [r EXCEPT !.bound = TRUE]
  <2>1. q.pc = r.pc /\ q.job = r.job /\ q.tok = r.tok /\ q.sess = r.sess /\ q.exit = r.exit
    BY <1>1 DEF Runs
  <2>2. run' = [run EXCEPT ![s] = q] /\ r.pc # "free"
    BY <1>7 DEF TimerFires, At
  <2> QED
    BY <2>1, <2>2, OneFollows
<1>8. ASSUME NEW h \in {"killing", "ended"}, run' = [run EXCEPT ![s].hb = h]
      PROVE  \A x \in Slots : Follows(x)
  <2> DEFINE q == [r EXCEPT !.hb = h]
  <2>1. q.pc = r.pc /\ q.job = r.job /\ q.tok = r.tok /\ q.sess = r.sess /\ q.exit = r.exit
    BY <1>1 DEF Runs
  <2>2. run' = [run EXCEPT ![s] = q]
    BY <1>8
  <2> QED
    BY <1>8, <2>1, <2>2, OneFollows
<1>9. CASE HeartbeatKills(s)
  <2> DEFINE e == Ended(DriverOf[s], r.job, "nonzero")
  <2>1. DriverOf[s] \in Drivers
    BY DriverOfAssumption
  <2>2. e \in [Slots -> Runs] /\ \A x \in Slots : e[x].hb = run[x].hb
    BY EndedKeeps DEF SystemInv, SystemTypeOK
  <2>3. run' = [e EXCEPT ![s].hb = "ended"]
    BY <1>9 DEF HeartbeatKills
  <2> HIDE DEF e
  <2>4. \A x \in Slots : \E q \in {run[x].hb, "ended"} : run'[x] = [e[x] EXCEPT !.hb = q]
    <3> TAKE x \in Slots
    <3>1. e[x] = [e[x] EXCEPT !.hb = run[x].hb]
      BY <2>2 DEF Runs
    <3>2. CASE x = s
      BY <2>2, <2>3, <3>2
    <3>3. CASE x # s
      BY <2>2, <2>3, <3>1, <3>3
    <3> QED
      BY <3>2, <3>3
  <2> QED
    BY <2>1, <2>4, EndedFollows DEF e
<1>10. CASE ContainerUp(s)
  <2> DEFINE q == [r EXCEPT !.pc = "up"]
  <2>1. q.pc # "free" /\ q.job = r.job /\ q.tok = r.tok /\ q.sess = r.sess /\ q.exit = r.exit
    BY <1>1 DEF Runs
  <2>2. run' = [run EXCEPT ![s] = q] /\ r.pc # "free"
    BY <1>10 DEF ContainerUp, Starts, At
  <2> QED
    BY <2>1, <2>2, OneFollows
<1> QED
  BY <1>2, <1>3, <1>4, <1>5, <1>6, <1>7, <1>8, <1>9, <1>10
     DEF RunSteps, SessionReported, SessionNotReported, OrphanUp, OrphanFails, Starts, HeartbeatKillFails, Closed,
         Exited, Settle, Reported, NotReported, Beat, LeaseLost, Beating, RemoteReported, At, driverVars

\* What has come up after a step.
RanAfter(j, t) == \E x \in 0 .. issued'[j] : <<t, x>> \in started'[j]

\* The run that an answer brings.
Fresh(s) == run'[s].exit = "none" /\ run'[s].sess \in 0 .. issued'[run'[s].job]

\* What a step leaves succeeded was so before, or its container has come up.
Succeeds(j) ==
    status'[j] = "succeeded" =>
        (status[j] = "succeeded" /\ output'[j] = output[j]) \/ RanAfter(j, output'[j])

\* A container after a step was there before, or has come up.
Contains(d, j) ==
    container'[d][j] # 0 => container'[d][j] = container[d][j] \/ RanAfter(j, container'[d][j])

LEMMA RanStep ==
  ASSUME SystemInv, RanInv, Kept,
         \A s \in Slots : Follows(s) \/ Fresh(s),
         \A j \in Jobs : started[j] \subseteq started'[j] /\ Succeeds(j),
         \A d \in Drivers, j \in Jobs : Contains(d, j)
  PROVE  RanInv'
<1> USE DEF RanInv
<1>1. IInv /\ [Next]_boardVars
  BY DEF SystemInv, Kept
<1>2. \A j \in Jobs : issued[j] \in Nat /\ issued'[j] \in Nat /\ issued[j] <= issued'[j]
  BY <1>1, IssuedGrows
<1>3. ASSUME NEW j \in Jobs, NEW t, Ran(j, t)
      PROVE  RanAfter(j, t)
  <2>1. PICK x \in 0 .. issued[j] : <<t, x>> \in started[j]
    BY <1>3 DEF Ran
  <2>2. x \in 0 .. issued'[j] /\ <<t, x>> \in started'[j]
    BY <1>2, <2>1
  <2> QED
    BY <2>2 DEF RanAfter
<1>4. \A s \in Slots : run[s].pc # "free" => run[s].job \in Jobs
  BY DEF SystemInv, RunInv, RunOk, SoundRun
<1>5. SessionsIssued'
  BY <1>1, SessionsStep
<1>6. SessionGiven'
  <2> SUFFICES ASSUME NEW s \in Slots, run'[s].pc # "free"
               PROVE  run'[s].sess \in 0 .. issued'[run'[s].job]
    BY DEF SessionGiven
  <2>1. CASE Follows(s)
    <3>1. /\ run[s].pc # "free" /\ run'[s].sess = run[s].sess
          /\ run'[s].job = run[s].job /\ run[s].job \in Jobs
      BY <1>4, <2>1 DEF Follows
    <3>2. run[s].sess \in 0 .. issued[run[s].job]
      BY <3>1 DEF SessionGiven
    <3> QED
      BY <1>2, <3>1, <3>2
  <2> QED
    BY <2>1 DEF Fresh
<1>7. ContainersRan'
  <2> SUFFICES ASSUME NEW d \in Drivers, NEW j \in Jobs, container'[d][j] # 0
               PROVE  RanAfter(j, container'[d][j])
    BY DEF ContainersRan, Ran, RanAfter
  <2> QED
    BY <1>3 DEF Contains, ContainersRan
<1>8. ExitsRan'
  <2> SUFFICES ASSUME NEW s \in Slots, run'[s].exit = "zero"
               PROVE  run'[s].pc # "free" /\ RanAfter(run'[s].job, run'[s].tok)
    BY DEF ExitsRan, Ran, RanAfter
  <2>1. Follows(s)
    BY DEF Fresh
  <2>2. /\ run'[s].pc # "free" /\ run'[s].job = run[s].job /\ run'[s].tok = run[s].tok
        /\ run[s].job \in Jobs
    BY <1>4, <2>1 DEF Follows
  <2>3. Ran(run[s].job, run[s].tok)
    BY <2>1, <2>2, DriverOfAssumption DEF Follows, ExitsRan, ContainersRan
  <2> QED
    BY <1>3, <2>2, <2>3
<1>9. SucceededMeansRan'
  <2> SUFFICES ASSUME NEW j \in Jobs, status'[j] = "succeeded"
               PROVE  RanAfter(j, output'[j])
    BY DEF SucceededMeansRan, RanAfter
  <2>1. status[j] = "succeeded" => Ran(j, output[j])
    BY DEF SucceededMeansRan, Ran
  <2> QED
    BY <1>3, <2>1 DEF Succeeds
<1> QED
  BY <1>5, <1>6, <1>7, <1>8, <1>9

\* Steps of the board alone, and claims that bring no run.
LEMMA QuietRan ==
  ASSUME SystemInv, RanInv, Kept,
         \/ \E j \in Jobs : BoardAlone(j)
         \/ \E c \in Claimers :
                \/ \E d \in Drivers : Ask(d, c)
                \/ Select(c) \/ NothingToClaim(c) \/ ClaimFails(c) \/ AnswerLost(c)
  PROVE  RanInv'
<1>1. UNCHANGED <<run, container, started>>
  BY DEF BoardAlone, Ask, Select, NothingToClaim, ClaimFails, AnswerLost, driverVars
<1>2. \A s \in Slots : Follows(s)
  BY <1>1 DEF Follows, RanInv, ExitsRan
<1>3. \A j \in Jobs : Succeeds(j)
  <2>1. ASSUME NEW k \in Jobs, Create(k) \/ Resume(k) \/ LeaseExpires(k)
        PROVE  \A j \in Jobs : Succeeds(j)
    BY <2>1 DEF Create, Resume, LeaseExpires, Succeeds, SystemInv, IInv, TypeOK
  <2>2. ASSUME NEW c \in Claimers,
               \/ ClaimRetire(c) \/ ClaimCommit(c) \/ ClaimAbort(c)
               \/ \E busy \in SUBSET Busy : ClaimEmpty(c, busy) \/ \E j \in Jobs : ClaimSelect(c, j, busy)
        PROVE  \A j \in Jobs : Succeeds(j)
    BY <2>2 DEF ClaimRetire, ClaimCommit, ClaimAbort, ClaimEmpty, ClaimSelect, rowVars, Succeeds,
                SystemInv, IInv, TypeOK
  <2> QED
    BY <2>1, <2>2 DEF BoardAlone, Ask, Select, NothingToClaim, ClaimFails, AnswerLost
<1> QED
  BY <1>1, <1>2, <1>3, RanStep DEF Contains

\* The claim that starts a run.
LEMMA AnswerRan ==
  ASSUME SystemInv, RanInv, Kept, NEW c \in Claimers, Answer(c)
  PROVE  RanInv'
<1> DEFINE d == asker[c]
           j == lock[c]
           n == NewRun(d, j)
<1>1. j \in Jobs
  BY DEF Answer, ClaimCommit, SystemInv, IInv, StageInv, TypeOK
<1>2. PICK f \in FreeSlots(d) : run' = [run EXCEPT ![f] = n]
  BY DEF Answer
<1>3. f \in Slots
  BY <1>2 DEF FreeSlots, SlotsOf
<1>4. issued[j] \in Nat /\ session[j] \in 0 .. issued[j] /\ issued'[j] = issued[j] + 1
  BY <1>1 DEF RanInv, SessionsIssued, SystemInv, IInv, TypeOK, Answer, ClaimCommit
<1>5. n.job = j /\ n.exit = "none" /\ n.sess \in {0, issued[j] + 1, KeptSession(j)}
  BY DEF NewRun
<1>6. n.sess \in 0 .. issued'[j]
  BY <1>4, <1>5 DEF KeptSession
<1> HIDE DEF n
<1>7. Fresh(f)
  BY <1>2, <1>3, <1>5, <1>6 DEF Fresh, SystemInv, SystemTypeOK
<1>8. \A s \in Slots \ {f} : Follows(s)
  BY <1>2 DEF Follows, RanInv, ExitsRan
<1>9. \A k \in Jobs : Succeeds(k)
  BY <1>1 DEF Answer, ClaimCommit, Succeeds, SystemInv, IInv, TypeOK
<1>10. UNCHANGED <<container, started>>
  BY DEF Answer
<1> QED
  BY <1>7, <1>8, <1>9, <1>10, RanStep DEF Contains

\* A process that ends, and what it was launching may still come up.
LEMMA ProcessRan ==
  ASSUME SystemInv, RanInv, Kept, NEW d \in Drivers, StopClaiming(d) \/ Exit(d) \/ Restart(d)
  PROVE  RanInv'
<1>1. UNCHANGED boardVars
  BY DEF StopClaiming, Exit, Restart
<1>2. \A j \in Jobs : Succeeds(j)
  BY <1>1 DEF boardVars, rowVars, Succeeds
<1>3. UNCHANGED <<container, started>>
  BY DEF StopClaiming, Restart, Exit
<1>4. ASSUME NEW s \in Slots PROVE Follows(s)
  BY ExitRuns DEF SystemInv, Follows, RanInv, ExitsRan, Idle
<1> QED
  BY <1>2, <1>3, <1>4, RanStep DEF Contains

\* Containers that end, and kills that land or fail.
LEMMA ContainerRan ==
  ASSUME SystemInv, RanInv, Kept, NEW d \in Drivers, NEW j \in Jobs,
         ContainerExits(d, j) \/ KillLands(d, j) \/ KillFails(d, j)
  PROVE  RanInv'
<1>1. UNCHANGED <<boardVars, started>>
  BY DEF ContainerExits, KillLands, KillFails
<1>2. \A k \in Jobs : Succeeds(k)
  BY <1>1 DEF boardVars, rowVars, Succeeds
<1>3. \A e \in Drivers, k \in Jobs : Contains(e, k)
  BY DEF ContainerExits, KillLands, KillFails, Contains, SystemInv, SystemTypeOK
<1>4. \A s \in Slots : Follows(s)
  <2>1. CASE UNCHANGED run
    BY <2>1 DEF Follows, RanInv, ExitsRan
  <2>2. ASSUME NEW code \in {"zero", "nonzero"}, container[d][j] # 0 \/ code = "nonzero",
               run' = Ended(d, j, code)
        PROVE  \A s \in Slots : Follows(s)
    <3> TAKE s \in Slots
    <3>1. Ended(d, j, code)[s] = [Ended(d, j, code)[s] EXCEPT !.hb = run[s].hb]
      BY DEF Ended, SystemInv, SystemTypeOK, Runs
    <3> QED
      BY <2>2, <3>1, EndedFollows DEF RanInv
  <2> QED
    BY <2>1, <2>2 DEF ContainerExits, KillLands, KillFails
<1> QED
  BY <1>1, <1>2, <1>3, <1>4, RanStep

\* What a run does: only its last report makes a job succeed, and only its start a container.
LEMMA LocalRan ==
  ASSUME SystemInv, RanInv, Kept, NEW s \in Slots,
         RunSteps(s) \/ Beat(s) \/ LeaseLost(s) \/ TimerFires(s) \/ RemoteReported(s)
  PROVE  RanInv'
<1> DEFINE j == run[s].job
           t == run[s].tok
           d == DriverOf[s]
<1>1. \A x \in Slots : Follows(x)
  BY LocalFollows DEF RanInv
<1>2. run[s].pc # "free" => j \in Jobs /\ d \in Drivers /\ run[s].sess \in 0 .. issued[j]
  BY DriverOfAssumption DEF SystemInv, RunInv, RunOk, SoundRun, RanInv, SessionGiven
<1>3. \A k \in Jobs : Succeeds(k)
  <2>1. CASE UNCHANGED <<status, output>>
    BY <2>1 DEF Succeeds
  <2>2. CASE Reported(s)
    <3>1. j \in Jobs /\ UNCHANGED <<issued, started>>
      BY <1>2, <2>2 DEF Reported, At, Suspend, Complete
    <3>2. ASSUME Complete(j, t, "succeeded"), run[s].exit = "zero"
          PROVE  \A k \in Jobs : Succeeds(k)
      <4>1. RanAfter(j, t)
        BY <3>1, <3>2 DEF RanInv, ExitsRan, Ran, RanAfter
      <4> QED
        BY <3>1, <3>2, <4>1 DEF Complete, Succeeds, SystemInv, IInv, TypeOK
    <3>3. ASSUME Complete(j, t, "failed") \/ Suspend(j, t)
          PROVE  \A k \in Jobs : Succeeds(k)
      BY <3>1, <3>3 DEF Complete, Suspend, Succeeds, SystemInv, IInv, TypeOK
    <3> QED
      BY <2>2, <3>2, <3>3 DEF Reported, Outcome
  <2> QED
    BY <2>1, <2>2
       DEF RunSteps, SessionReported, SessionNotReported, ContainerUp, OrphanUp, OrphanFails, Starts, LaunchRefused, SpawnError,
           HeartbeatKills, HeartbeatKillFails, Closed, Settle, NotReported, Beat, LeaseLost,
           TimerFires, RemoteReported, Session, Heartbeat, boardVars, rowVars
<1>4. (\A k \in Jobs : started[k] \subseteq started'[k]) /\ \A e \in Drivers, k \in Jobs : Contains(e, k)
  <2>1. CASE UNCHANGED <<container, started>>
    BY <2>1 DEF Contains
  <2>2. CASE ContainerUp(s) \/ OrphanUp(s)
    <3>1. /\ j \in Jobs /\ d \in Drivers /\ run[s].sess \in 0 .. issued[j] /\ UNCHANGED issued
          /\ container' = [container EXCEPT ![d][j] = t]
          /\ started' = [started EXCEPT ![j] = @ \cup {<<t, run[s].sess>>}]
      BY <1>2, <2>2 DEF ContainerUp, OrphanUp, Starts, At, boardVars, rowVars
    <3>2. /\ \A k \in Jobs : started[k] \subseteq started'[k]
          /\ <<t, run[s].sess>> \in started'[j]
      BY <3>1 DEF SystemInv, SystemTypeOK
    <3>3. RanAfter(j, t)
      BY <3>1, <3>2 DEF RanAfter
    <3>4. \A e \in Drivers, k \in Jobs :
             container'[e][k] = IF e = d /\ k = j THEN t ELSE container[e][k]
      BY <3>1 DEF SystemInv, SystemTypeOK
    <3> QED
      BY <3>2, <3>3, <3>4 DEF Contains
  <2>3. CASE HeartbeatKills(s)
    BY <2>3 DEF HeartbeatKills, Contains, SystemInv, SystemTypeOK
  <2> QED
    BY <2>1, <2>2, <2>3
       DEF RunSteps, SessionReported, SessionNotReported, OrphanFails, LaunchRefused, SpawnError, Reported,
           HeartbeatKillFails, Closed, Settle, NotReported, Beat, LeaseLost, TimerFires,
           RemoteReported, driverVars
<1> QED
  BY <1>1, <1>3, <1>4, RanStep

LEMMA NextRan ==
  ASSUME SystemInv, RanInv, [SystemNext]_systemVars
  PROVE  RanInv'
<1>1. Kept
  BY NextKept
<1>2. CASE UNCHANGED systemVars
  <2>1. UNCHANGED <<session, issued, run, container, started, status, output>>
    BY <1>2 DEF systemVars, boardVars, rowVars, driverVars
  <2> QED
    BY <2>1 DEF RanInv, SessionsIssued, SessionGiven, ContainersRan, ExitsRan, SucceededMeansRan, Ran
<1>3. CASE SystemNext
  BY <1>1, <1>3, QuietRan, AnswerRan, ProcessRan, ContainerRan, LocalRan DEF SystemNext, ClaimSteps
<1> QED
  BY <1>2, <1>3

LEMMA RanInvariance == SystemSpec => []RanInv
<1>1. SystemInit => RanInv
  <2> SUFFICES ASSUME SystemInit PROVE RanInv
    OBVIOUS
  <2> QED
    BY DEF SystemInit, Init, RanInv, SessionsIssued, SessionGiven, ContainersRan, ExitsRan,
           SucceededMeansRan, Idle
<1>2. SystemInv /\ RanInv /\ [SystemNext]_systemVars => RanInv'
  BY NextRan
<1> QED
  BY <1>1, <1>2, SystemInvariance, PTL DEF SystemSpec

\* A success is that of a run whose container came up, whatever the drivers, the daemon and the calls
\* do (loop.ts, the exit code): no report invents one, and none is that of another attempt.
THEOREM SuccessRan == SystemSpec => []SucceededMeansRan
<1>1. RanInv => SucceededMeansRan
  BY DEF RanInv
<1> QED
  BY <1>1, RanInvariance, PTL

-----------------------------------------------------------------------------
(* A claim has one run and one container, and a session one writer         *)

Early(r) == r.pc \in {"refuse", "report", "launch", "orphan"}
Waiting(r) == r.pc \in {"report", "launch", "orphan"}
Late(r) == r.pc \in {"settle", "suspend", "complete"}

\* Run r is of the claim that was given token t of job j.
OfClaim(r, j, t) == r.pc # "free" /\ r.job = j /\ r.tok = t

\* The container of a daemon drives session x, the run in a slot is about to start one.
Drives(d, j, x) == <<container[d][j], x>> \in started[j]
Waits(s, j, x) == Waiting(run[s]) /\ run[s].job = j /\ run[s].sess = x

RunsApart ==
    \A s, t \in Slots : run[s].pc # "free" /\ OfClaim(run[t], run[s].job, run[s].tok) => s = t

\* Before docker run there is no container of the claim, and after it has closed neither.
RunPlaced(s) ==
    LET r == run[s] IN
    /\ Early(r) => /\ r.exit = "none" /\ r.sess <= r.tok
                   /\ \A d \in Drivers : container[d][r.job] # r.tok
                   /\ \A p \in started[r.job] : p[1] # r.tok
    /\ r.pc = "up" => \A d \in Drivers :
           container[d][r.job] = r.tok => d = DriverOf[s] /\ r.exit = "none"
    /\ Late(r) => \A d \in Drivers : container[d][r.job] # r.tok

ContainersPlaced ==
    \A j \in Jobs, d \in Drivers :
        /\ container[d][j] \in 0 .. issued[j]
        /\ \A e \in Drivers : container[d][j] # 0 /\ container[e][j] = container[d][j] => d = e

\* A container runs a session that was minted by its claim or by an earlier one.
StartedInOrder == \A j \in Jobs : \A p \in started[j] : p[1] \in 1 .. issued[j] /\ p[2] <= p[1]

OneWriterEach ==
    \A j \in Jobs : \A x \in Nat \ {0} :
        /\ \A d, e \in Drivers : Drives(d, j, x) /\ Drives(e, j, x) => d = e
        /\ \A s, t \in Slots : Waits(s, j, x) /\ Waits(t, j, x) => s = t
        /\ \A d \in Drivers, s \in Slots : ~(Drives(d, j, x) /\ Waits(s, j, x))

PlaceInv ==
    /\ RunsApart /\ ContainersPlaced /\ StartedInOrder /\ OneWriterEach
    /\ \A s \in Slots : RunPlaced(s)

\* What a row says of its last claim: when it has been reported, nothing of it is left; the
\* session on the row is that of the last claim and of nobody else, and what it runs.
RowOk(j) ==
    /\ status[j] \notin {"running", "dead"} =>
           /\ \A d \in Drivers : container[d][j] # 0 => container[d][j] # issued[j]
           /\ \A s \in Slots : ~OfClaim(run[s], j, issued[j])
    /\ session[j] # 0 =>
           /\ \A s \in Slots : Waits(s, j, session[j]) => run[s].tok = issued[j]
           /\ \A d \in Drivers : Drives(d, j, session[j]) => container[d][j] = issued[j]
    /\ status[j] = "running" /\ session[j] # 0 =>
           /\ \A s \in Slots :
                  Waiting(run[s]) /\ OfClaim(run[s], j, issued[j]) => run[s].sess = session[j]
           /\ \A d \in Drivers :
                  container[d][j] # 0 /\ container[d][j] = issued[j] => Drives(d, j, session[j])

OneInv == PlaceInv /\ \A j \in Jobs : RowOk(j)


\* How far the run in a slot may get in a step, but for the coming up of its container.
Goes(s) ==
    /\ run'[s].pc # "free" => /\ run[s].pc # "free"
                              /\ run'[s].job = run[s].job
                              /\ run'[s].tok = run[s].tok
                              /\ run'[s].sess = run[s].sess
    /\ Early(run'[s]) => Early(run[s]) /\ run'[s].exit = run[s].exit
    /\ Waiting(run'[s]) => Waiting(run[s])
    /\ run'[s].pc = "up" =>
           \/ Early(run[s])
           \/ /\ run[s].pc = "up"
              /\ \/ run'[s].exit = run[s].exit
                 \/ container'[DriverOf[s]][run[s].job] # run[s].tok
    /\ Late(run'[s]) =>
           \/ Early(run[s]) \/ Late(run[s])
           \/ run[s].pc = "up" /\ run[s].exit # "none"
           \/ run[s].pc = "settle"

\* What is known of a slot that is not free.
LEMMA Claimed ==
  ASSUME SystemInv, NEW s \in Slots, run[s].pc # "free"
  PROVE  run[s].job \in Jobs /\ run[s].tok \in 1 .. issued[run[s].job] /\ DriverOf[s] \in Drivers
  BY DriverOfAssumption DEF SystemInv, RunInv, RunOk, SoundRun

\* No container comes up, and some may end.
Shrinks ==
    /\ UNCHANGED started
    /\ \A j \in Jobs, d \in Drivers : container'[d][j] \in {0, container[d][j]}

\* A container that drives a session after such a step did so before it.
LEMMA ShrinkDrives ==
  ASSUME PlaceInv, Shrinks, NEW j \in Jobs, NEW d \in Drivers, NEW x, Drives(d, j, x)'
  PROVE  Drives(d, j, x) /\ container'[d][j] = container[d][j] /\ container[d][j] # 0
<1>1. <<container'[d][j], x>> \in started[j]
  BY DEF Drives, Shrinks
<1>2. container'[d][j] # 0
  BY <1>1 DEF PlaceInv, StartedInOrder
<1> QED
  BY <1>1, <1>2 DEF Drives, Shrinks

LEMMA ShrinkPlace ==
  ASSUME SystemInv, Kept, PlaceInv, Shrinks, \A s \in Slots : Goes(s)
  PROVE  PlaceInv'
<1>1. \A j \in Jobs : issued[j] \in Nat /\ issued'[j] \in Nat /\ issued[j] <= issued'[j]
  BY IssuedGrows DEF SystemInv, Kept
<1>2. RunsApart'
  <2> SUFFICES ASSUME NEW s \in Slots, NEW t \in Slots, run'[s].pc # "free", run'[t].pc # "free",
                      run'[t].job = run'[s].job, run'[t].tok = run'[s].tok
               PROVE  s = t
    BY DEF RunsApart, OfClaim
  <2> QED
    BY DEF Goes, PlaceInv, RunsApart, OfClaim
<1>3. ContainersPlaced'
  BY <1>1 DEF PlaceInv, ContainersPlaced, Shrinks
<1>4. StartedInOrder'
  BY <1>1 DEF PlaceInv, StartedInOrder, Shrinks
<1>5. OneWriterEach'
  <2> SUFFICES ASSUME NEW j \in Jobs, NEW x \in Nat \ {0}
               PROVE  /\ \A d, e \in Drivers : Drives(d, j, x)' /\ Drives(e, j, x)' => d = e
                      /\ \A s, t \in Slots : Waits(s, j, x)' /\ Waits(t, j, x)' => s = t
                      /\ \A d \in Drivers, s \in Slots : ~(Drives(d, j, x)' /\ Waits(s, j, x)')
    BY DEF OneWriterEach
  <2>1. \A d \in Drivers : Drives(d, j, x)' => Drives(d, j, x)
    BY ShrinkDrives
  <2>2. \A s \in Slots : Waits(s, j, x)' => Waits(s, j, x)
    BY DEF Waits, Waiting, Goes
  <2> QED
    BY <2>1, <2>2 DEF PlaceInv, OneWriterEach
<1>6. ASSUME NEW s \in Slots PROVE RunPlaced(s)'
  <2> DEFINE j == run[s].job
             t == run[s].tok
  <2>1. CASE run'[s].pc = "free"
    BY <2>1 DEF RunPlaced, Early, Late
  <2>2. CASE run'[s].pc # "free"
    <3>1. /\ j \in Jobs /\ t \in 1 .. issued[j] /\ Goes(s) /\ RunPlaced(s)
          /\ run'[s].job = j /\ run'[s].tok = t /\ run'[s].sess = run[s].sess
      BY <2>2, Claimed DEF Goes, PlaceInv
    <3>2. \A d \in Drivers : container'[d][j] = t => container[d][j] = t
      BY <1>1, <3>1 DEF Shrinks
    <3> QED
      BY <3>1, <3>2, DriverOfAssumption DEF Goes, RunPlaced, Early, Late, Shrinks
  <2> QED
    BY <2>1, <2>2
<1> QED
  BY <1>2, <1>3, <1>4, <1>5, <1>6 DEF PlaceInv

\* What a step that ends nothing of a job's last claim, or tells of its end, does to the row.
RowGoes(j) ==
    /\ issued'[j] = issued[j] /\ session'[j] = session[j]
    /\ status'[j] \notin {"running", "dead"} => status[j] \notin {"running", "dead"}
    /\ status'[j] = "running" => status[j] = "running"

LEMMA ShrinkRow ==
  ASSUME SystemInv, PlaceInv, Shrinks, \A s \in Slots : Goes(s), NEW j \in Jobs, RowOk(j), RowGoes(j)
  PROVE  RowOk(j)'
<1>1. \A d \in Drivers : container'[d][j] # 0 => container'[d][j] = container[d][j]
  BY DEF Shrinks
<1>2. \A s \in Slots : OfClaim(run[s], j, issued[j])' => OfClaim(run[s], j, issued[j])
  BY DEF OfClaim, Goes, RowGoes
<1>3. \A s \in Slots : Waits(s, j, session[j])' => Waits(s, j, session[j]) /\ run'[s].tok = run[s].tok
  BY DEF Waits, Waiting, Goes, RowGoes
<1>4. \A s \in Slots : Waiting(run[s])' => Waiting(run[s]) /\ run'[s].sess = run[s].sess
  BY DEF Waiting, Goes
<1>5. \A d \in Drivers : Drives(d, j, session[j])'
          => Drives(d, j, session[j]) /\ container'[d][j] = container[d][j]
  BY ShrinkDrives DEF RowGoes
<1>6. \A d \in Drivers : container'[d][j] # 0 /\ Drives(d, j, session[j]) => Drives(d, j, session[j])'
  BY <1>1 DEF Drives, Shrinks, RowGoes
<1> QED
  BY <1>1, <1>2, <1>3, <1>4, <1>5, <1>6 DEF RowOk, RowGoes

-----------------------------------------------------------------------------
(* Containers that come up                                                 *)

\* Runs that are about to start a container on daemon d.
CanStart(d, late) == \A u \in late : /\ u \in Slots /\ DriverOf[u] = d
                                       /\ run[u].pc \in {"launch", "orphan"}

\* The container of job j on daemon e after theirs have come up.
PlacedBy(d, late, e, j) ==
    \/ container'[e][j] = container[e][j]
    \/ e = d /\ \E u \in late : run[u].job = j /\ container'[e][j] = run[u].tok

StartedBy(late, j) ==
    started'[j] = started[j] \cup {<<run[u].tok, run[u].sess>> : u \in {v \in late : run[v].job = j}}

\* A slot goes on as it was, is given up, or has its container.
RunsBy(late, s) ==
    \/ run'[s].pc = "free"
    \/ run'[s] = run[s] /\ s \notin late
    \/ /\ s \in late /\ run'[s].pc = "up" /\ run'[s].exit = "none"
       /\ run'[s].job = run[s].job /\ run'[s].tok = run[s].tok /\ run'[s].sess = run[s].sess

ComesUp(d, late) ==
    /\ CanStart(d, late)
    /\ \A e \in Drivers, j \in Jobs : PlacedBy(d, late, e, j)
    /\ \A j \in Jobs : StartedBy(late, j)
    /\ \A s \in Slots : RunsBy(late, s)
    /\ UNCHANGED boardVars

\* What a container drives after that step it drove before, or it is one that came up.
LEMMA ComesUpDrives ==
  ASSUME SystemInv, PlaceInv, NEW d \in Drivers, NEW late, ComesUp(d, late),
         NEW e \in Drivers, NEW j \in Jobs, NEW x, Drives(e, j, x)'
  PROVE  \/ Drives(e, j, x) /\ container'[e][j] = container[e][j]
         \/ e = d /\ \E u \in late : Waits(u, j, x) /\ container'[e][j] = run[u].tok
<1>1. <<container'[e][j], x>> \in started'[j]
  BY DEF Drives
<1>2. \A u \in late : u \in Slots /\ Early(run[u]) /\ Waiting(run[u]) /\ run[u].pc # "free"
  BY DEF ComesUp, CanStart, Early, Waiting
<1>3. \A u \in late : run[u].job = j => /\ container[e][j] # run[u].tok
                                        /\ \A p \in started[j] : p[1] # run[u].tok
  BY <1>2 DEF PlaceInv, RunPlaced
<1>4. \/ <<container'[e][j], x>> \in started[j]
      \/ \E u \in late : run[u].job = j /\ container'[e][j] = run[u].tok /\ x = run[u].sess
  BY <1>1 DEF ComesUp, StartedBy
<1>5. PlacedBy(d, late, e, j)
  BY DEF ComesUp
<1>6. CASE container'[e][j] = container[e][j]
  BY <1>3, <1>4, <1>6 DEF Drives
<1>7. ASSUME e = d, NEW u \in late, run[u].job = j, container'[e][j] = run[u].tok
      PROVE  \E v \in late : Waits(v, j, x) /\ container'[e][j] = run[v].tok
  <2>1. <<container'[e][j], x>> \notin started[j]
    BY <1>3, <1>7
  <2>2. PICK v \in late : run[v].job = j /\ container'[e][j] = run[v].tok /\ x = run[v].sess
    BY <1>4, <2>1
  <2> QED
    BY <1>2, <2>2 DEF Waits
<1> QED
  BY <1>5, <1>6, <1>7 DEF PlacedBy

\* Containers that come up are the only ones of their claims, and the only ones of their sessions.
LEMMA ComesUpPlace ==
  ASSUME SystemInv, PlaceInv, NEW d \in Drivers, NEW late, ComesUp(d, late)
  PROVE  PlaceInv'
<1>1. UNCHANGED issued
  BY DEF ComesUp, boardVars, rowVars
<1>2. \A u \in late : /\ u \in Slots /\ DriverOf[u] = d /\ run[u].pc # "free"
                      /\ Early(run[u]) /\ Waiting(run[u])
                      /\ run[u].job \in Jobs /\ run[u].tok \in 1 .. issued[run[u].job]
  BY Claimed DEF ComesUp, CanStart, Early, Waiting
<1>3. \A u \in late : /\ run[u].sess <= run[u].tok
                      /\ \A e \in Drivers : container[e][run[u].job] # run[u].tok
                      /\ \A p \in started[run[u].job] : p[1] # run[u].tok
  BY <1>2 DEF PlaceInv, RunPlaced
<1>4. \A s \in Slots : run'[s].pc # "free" =>
          run[s].pc # "free" /\ run'[s].job = run[s].job /\ run'[s].tok = run[s].tok
  BY <1>2 DEF ComesUp, RunsBy
<1>5. \A s \in Slots : \A u \in late :
          run[s].pc # "free" /\ run[s].job = run[u].job /\ run[s].tok = run[u].tok => s = u
  BY <1>2 DEF PlaceInv, RunsApart, OfClaim
<1>6. RunsApart'
  BY <1>4 DEF PlaceInv, RunsApart, OfClaim
<1>7. \A e \in Drivers, j \in Jobs : PlacedBy(d, late, e, j)
  BY DEF ComesUp
<1>8. ContainersPlaced'
  <2>1. ASSUME NEW j \in Jobs, NEW e \in Drivers PROVE container'[e][j] \in 0 .. issued[j]
    BY <1>2, <1>7 DEF PlacedBy, PlaceInv, ContainersPlaced
  <2>2. ASSUME NEW j \in Jobs, NEW e \in Drivers, NEW f \in Drivers,
               container'[e][j] # 0, container'[f][j] = container'[e][j]
        PROVE  e = f
    BY <1>3, <1>7, <2>2 DEF PlacedBy, PlaceInv, ContainersPlaced
  <2> QED
    BY <1>1, <2>1, <2>2 DEF ContainersPlaced
<1>9. StartedInOrder'
  <2> SUFFICES ASSUME NEW j \in Jobs, NEW p \in started'[j]
               PROVE  p[1] \in 1 .. issued[j] /\ p[2] <= p[1]
    BY <1>1 DEF StartedInOrder
  <2>1. p \in started[j] \/ \E u \in late : run[u].job = j /\ p = <<run[u].tok, run[u].sess>>
    BY DEF ComesUp, StartedBy
  <2> QED
    BY <1>2, <1>3, <2>1 DEF PlaceInv, StartedInOrder
<1>10. OneWriterEach'
  <2> SUFFICES ASSUME NEW j \in Jobs, NEW x \in Nat \ {0}
               PROVE  /\ \A e, f \in Drivers : Drives(e, j, x)' /\ Drives(f, j, x)' => e = f
                      /\ \A s, t \in Slots : Waits(s, j, x)' /\ Waits(t, j, x)' => s = t
                      /\ \A e \in Drivers, s \in Slots : ~(Drives(e, j, x)' /\ Waits(s, j, x)')
    BY DEF OneWriterEach
  <2>1. \A e \in Drivers : Drives(e, j, x)' =>
            Drives(e, j, x) \/ (e = d /\ \E u \in late : Waits(u, j, x))
    BY ComesUpDrives
  <2>2. \A s \in Slots : Waits(s, j, x)' => Waits(s, j, x) /\ s \notin late
    BY DEF ComesUp, RunsBy, Waits, Waiting
  <2> QED
    BY <1>2, <2>1, <2>2 DEF PlaceInv, OneWriterEach
<1>11. ASSUME NEW s \in Slots PROVE RunPlaced(s)'
  <2> DEFINE j == run[s].job
             t == run[s].tok
  <2>1. CASE run'[s].pc = "free"
    BY <2>1 DEF RunPlaced, Early, Late
  <2>2. CASE run'[s].pc # "free" /\ run'[s] = run[s] /\ s \notin late
    <3>1. j \in Jobs
      BY <2>2, Claimed
    <3>2. \A e \in Drivers : container'[e][j] = t => container[e][j] = t
      BY <1>5, <1>7, <2>2, <3>1 DEF PlacedBy
    <3>3. \A p \in started'[j] : p[1] = t => p \in started[j]
      BY <1>5, <2>2, <3>1 DEF ComesUp, StartedBy
    <3> QED
      BY <2>2, <3>2, <3>3 DEF PlaceInv, RunPlaced
  <2>3. CASE run'[s].pc = "up" /\ s \in late /\ run'[s].exit = "none" /\ run'[s].job = j /\ run'[s].tok = t
    BY <1>2, <1>3, <1>7, <2>3 DEF PlacedBy, RunPlaced, Early, Late
  <2> QED
    BY <2>1, <2>2, <2>3 DEF ComesUp, RunsBy
<1> QED
  BY <1>6, <1>8, <1>9, <1>10, <1>11 DEF PlaceInv

\* They are the row's, if their claim is its last.
LEMMA ComesUpRow ==
  ASSUME SystemInv, PlaceInv, NEW d \in Drivers, NEW late, ComesUp(d, late), NEW j \in Jobs, RowOk(j)
  PROVE  RowOk(j)'
<1>1. UNCHANGED <<issued, session, status>>
  BY DEF ComesUp, boardVars, rowVars
<1>2. \A u \in late : u \in Slots /\ Waiting(run[u]) /\ run[u].pc # "free"
  BY DEF ComesUp, CanStart, Waiting
<1>3. \A s \in Slots : OfClaim(run[s], j, issued[j])' => OfClaim(run[s], j, issued[j])
  BY <1>1, <1>2 DEF ComesUp, RunsBy, OfClaim
<1>4. \A s \in Slots : Waiting(run[s])' => run'[s] = run[s]
  BY DEF ComesUp, RunsBy, Waiting
<1>5. \A e \in Drivers : PlacedBy(d, late, e, j)
  BY DEF ComesUp
<1>6. \A e \in Drivers : container'[e][j] # container[e][j] /\ container'[e][j] = issued[j] =>
          \E u \in late : /\ Waiting(run[u]) /\ OfClaim(run[u], j, issued[j])
                          /\ <<issued[j], run[u].sess>> \in started'[j]
  BY <1>2, <1>5 DEF PlacedBy, OfClaim, ComesUp, StartedBy
<1>7. status'[j] \notin {"running", "dead"} =>
           /\ \A e \in Drivers : container'[e][j] # 0 => container'[e][j] # issued'[j]
           /\ \A s \in Slots : ~OfClaim(run[s], j, issued[j])'
  BY <1>1, <1>2, <1>3, <1>6 DEF RowOk
<1>8. session'[j] # 0 =>
           /\ \A s \in Slots : Waits(s, j, session[j])' => run'[s].tok = issued'[j]
           /\ \A e \in Drivers : Drives(e, j, session[j])' => container'[e][j] = issued'[j]
  <2> SUFFICES ASSUME session[j] # 0
               PROVE  /\ \A s \in Slots : Waits(s, j, session[j])' => run'[s].tok = issued[j]
                      /\ \A e \in Drivers : Drives(e, j, session[j])' => container'[e][j] = issued[j]
    BY <1>1
  <2>1. \A s \in Slots : Waits(s, j, session[j])' => run'[s].tok = issued[j]
    BY <1>1, <1>4 DEF RowOk, Waits
  <2>2. ASSUME NEW e \in Drivers, Drives(e, j, session[j])' PROVE container'[e][j] = issued[j]
    <3>1. \/ Drives(e, j, session[j]) /\ container'[e][j] = container[e][j]
          \/ e = d /\ \E u \in late : Waits(u, j, session[j]) /\ container'[e][j] = run[u].tok
      BY <1>1, <2>2, ComesUpDrives DEF Drives
    <3> QED
      BY <1>2, <3>1 DEF RowOk
  <2> QED
    BY <2>1, <2>2
<1>9. status'[j] = "running" /\ session'[j] # 0 =>
           /\ \A s \in Slots : Waiting(run[s])' /\ OfClaim(run[s], j, issued[j])'
                  => run'[s].sess = session'[j]
           /\ \A e \in Drivers : container'[e][j] # 0 /\ container'[e][j] = issued'[j]
                  => Drives(e, j, session[j])'
  <2> SUFFICES ASSUME status[j] = "running", session[j] # 0
               PROVE  /\ \A s \in Slots : Waiting(run[s])' /\ OfClaim(run[s], j, issued[j])'
                             => run'[s].sess = session[j]
                      /\ \A e \in Drivers : container'[e][j] # 0 /\ container'[e][j] = issued[j]
                             => Drives(e, j, session[j])'
    BY <1>1
  <2>1. \A s \in Slots : Waiting(run[s])' /\ OfClaim(run[s], j, issued[j])' => run'[s].sess = session[j]
    BY <1>3, <1>4 DEF RowOk, Waiting
  <2>2. ASSUME NEW e \in Drivers, container'[e][j] # 0, container'[e][j] = issued[j]
        PROVE  Drives(e, j, session[j])'
    <3>1. CASE container'[e][j] = container[e][j]
      BY <1>1, <2>2, <3>1 DEF RowOk, Drives, ComesUp, StartedBy
    <3>2. CASE container'[e][j] # container[e][j]
      <4>1. PICK u \in late : /\ Waiting(run[u]) /\ OfClaim(run[u], j, issued[j])
                              /\ <<issued[j], run[u].sess>> \in started'[j]
        BY <1>6, <2>2, <3>2
      <4>2. run[u].sess = session[j]
        BY <1>2, <4>1 DEF RowOk
      <4> QED
        BY <1>1, <2>2, <4>1, <4>2 DEF Drives
    <3> QED
      BY <3>1, <3>2
  <2> QED
    BY <2>1, <2>2
<1> QED
  BY <1>7, <1>8, <1>9 DEF RowOk

-----------------------------------------------------------------------------
(* The actions                                                             *)

\* A run that goes on by itself: what a step may make of a run r.
Moves(r, q) ==
    /\ q.job = r.job /\ q.tok = r.tok /\ q.sess = r.sess
    /\ \/ q.pc = r.pc /\ q.exit = r.exit
       \/ r.pc = "report" /\ q.pc = "launch" /\ q.exit = r.exit
       \/ r.pc = "launch" /\ q.pc \in {"up", "settle"}
       \/ r.pc = "launch" /\ q.pc = "orphan" /\ q.exit = r.exit
       \/ r.pc = "up" /\ r.exit # "none" /\ q.pc = "settle"
       \/ r.pc = "settle" /\ q.pc \in {"suspend", "complete"}

LEMMA MovesGoes ==
  ASSUME NEW s \in Slots, run'[s] = Idle \/ Moves(run[s], run'[s])
  PROVE  Goes(s)
  BY DEF Goes, Moves, Idle, Early, Waiting, Late

LEMMA StillGoes == ASSUME UNCHANGED run PROVE \A s \in Slots : Goes(s)
  BY DEF Goes, Early, Waiting, Late

\* A run that is alone in being changed.
LEMMA OneGoes ==
  ASSUME SystemInv, NEW s \in Slots, NEW q, run' = [run EXCEPT ![s] = q], q = Idle \/ Moves(run[s], q)
  PROVE  \A x \in Slots : Goes(x)
<1>1. \A x \in Slots : run'[x] = IF x = s THEN q ELSE run[x]
  BY DEF SystemInv, SystemTypeOK
<1>2. \A x \in Slots : run'[x] = Idle \/ Moves(run[x], run'[x])
  BY <1>1 DEF Moves
<1> QED
  BY <1>2, MovesGoes

\* The end of a container is seen by its run.
LEMMA EndedGoes ==
  ASSUME SystemInv, NEW d \in Drivers, NEW j, NEW code,
         container' = [container EXCEPT ![d][j] = 0],
         NEW s \in Slots, NEW h, run'[s] = [Ended(d, j, code)[s] EXCEPT !.hb = h]
  PROVE  Goes(s)
<1>1. run[s] \in Runs
  BY DEF SystemInv, SystemTypeOK
<1>2. CASE DriverOf[s] = d /\ run[s].job = j /\ run[s].tok = container[d][j] /\ At(s, "up")
  <2>1. /\ run'[s].pc = "up" /\ run[s].pc = "up"
        /\ run'[s].job = j /\ run'[s].tok = run[s].tok /\ run'[s].sess = run[s].sess
    BY <1>1, <1>2 DEF Ended, Runs, At
  <2>2. j \in Jobs /\ run[s].tok # 0
    BY <1>2, <2>1, Claimed DEF SystemInv, IInv, TypeOK
  <2>3. container'[d][j] = 0
    BY <2>2 DEF SystemInv, SystemTypeOK
  <2> QED
    BY <1>2, <2>1, <2>2, <2>3 DEF Goes, Early, Waiting, Late
<1>3. CASE ~(DriverOf[s] = d /\ run[s].job = j /\ run[s].tok = container[d][j] /\ At(s, "up"))
  BY <1>1, <1>3, MovesGoes DEF Ended, Runs, Moves
<1> QED
  BY <1>2, <1>3

\* No row changes what it says of its last claim.
LEMMA StillRows == ASSUME UNCHANGED boardVars PROVE \A j \in Jobs : RowGoes(j)
  BY DEF boardVars, rowVars, RowGoes

LEMMA ShrinkOne ==
  ASSUME SystemInv, OneInv, Kept, Shrinks, \A s \in Slots : Goes(s), \A j \in Jobs : RowGoes(j)
  PROVE  OneInv'
  BY ShrinkPlace, ShrinkRow DEF OneInv

LEMMA ComesUpOne ==
  ASSUME SystemInv, OneInv, NEW d \in Drivers, NEW late, ComesUp(d, late)
  PROVE  OneInv'
  BY ComesUpPlace, ComesUpRow DEF OneInv

\* Steps of the board alone, and claims that select nothing or do not commit.
LEMMA QuietOne ==
  ASSUME SystemInv, OneInv, Kept,
         \/ \E j \in Jobs : BoardAlone(j)
         \/ \E c \in Claimers : \/ \E d \in Drivers : Ask(d, c)
                                \/ Select(c) \/ NothingToClaim(c) \/ ClaimFails(c)
  PROVE  OneInv'
<1>1. UNCHANGED <<run, container, started>>
  BY DEF BoardAlone, Ask, Select, NothingToClaim, ClaimFails, driverVars
<1>2. Shrinks
  BY <1>1 DEF Shrinks
<1>3. \A j \in Jobs : RowGoes(j)
  <2>1. ASSUME NEW k \in Jobs, Create(k) \/ Resume(k) \/ LeaseExpires(k)
        PROVE  \A j \in Jobs : RowGoes(j)
    BY <2>1 DEF Create, Resume, LeaseExpires, RowGoes, SystemInv, IInv, TypeOK
  <2>2. ASSUME NEW c \in Claimers,
               \/ ClaimRetire(c) \/ ClaimAbort(c)
               \/ \E busy \in SUBSET Busy : ClaimEmpty(c, busy) \/ \E j \in Jobs : ClaimSelect(c, j, busy)
        PROVE  \A j \in Jobs : RowGoes(j)
    BY <2>2 DEF ClaimRetire, ClaimAbort, ClaimEmpty, ClaimSelect, rowVars, RowGoes,
                SystemInv, IInv, TypeOK
  <2> QED
    BY <2>1, <2>2 DEF BoardAlone, Ask, Select, NothingToClaim, ClaimFails
<1> QED
  BY <1>1, <1>2, <1>3, StillGoes, ShrinkOne

\* A process that ends leaves containers that are there, or still coming up.
LEMMA ProcessOne ==
  ASSUME SystemInv, OneInv, Kept, NEW d \in Drivers, StopClaiming(d) \/ Exit(d) \/ Restart(d)
  PROVE  OneInv'
<1>1. UNCHANGED <<boardVars, container, started>>
  BY DEF StopClaiming, Exit, Restart
<1>2. Shrinks
  BY <1>1 DEF Shrinks
<1>3. ASSUME NEW s \in Slots PROVE Goes(s)
  <2>1. run'[s] = Idle \/ Moves(run[s], run'[s])
    BY ExitRuns DEF SystemInv, Moves
  <2> QED
    BY <2>1, MovesGoes
<1> QED
  BY <1>1, <1>2, <1>3, StillRows, ShrinkOne

\* Containers that end, and kills that land or fail.
LEMMA ContainerOne ==
  ASSUME SystemInv, OneInv, Kept, NEW d \in Drivers, NEW j \in Jobs,
         ContainerExits(d, j) \/ KillLands(d, j) \/ KillFails(d, j)
  PROVE  OneInv'
<1>1. UNCHANGED <<boardVars, started>>
  BY DEF ContainerExits, KillLands, KillFails
<1>2. Shrinks
  BY <1>1 DEF ContainerExits, KillLands, KillFails, Shrinks, SystemInv, SystemTypeOK
<1>3. CASE KillFails(d, j)
  BY <1>1, <1>2, <1>3, StillGoes, StillRows, ShrinkOne DEF KillFails
<1>4. ASSUME NEW code, run' = Ended(d, j, code), container' = [container EXCEPT ![d][j] = 0]
      PROVE  OneInv'
  <2>1. ASSUME NEW s \in Slots PROVE Goes(s)
    <3>1. Ended(d, j, code)[s] = [Ended(d, j, code)[s] EXCEPT !.hb = run[s].hb]
      BY DEF Ended, SystemInv, SystemTypeOK, Runs
    <3> QED
      BY <1>4, <3>1, EndedGoes
  <2> QED
    BY <1>1, <1>2, <2>1, StillRows, ShrinkOne
<1> QED
  BY <1>3, <1>4 DEF ContainerExits, KillLands

\* What a run does that the board does not hear of, or only that it goes on.
LEMMA LocalGoes ==
  ASSUME SystemInv, NEW s \in Slots,
         \/ SessionReported(s) \/ SessionNotReported(s) \/ LaunchRefused(s) \/ SpawnError(s)
         \/ OrphanFails(s)
         \/ HeartbeatKills(s) \/ HeartbeatKillFails(s) \/ Closed(s) \/ Settle(s)
         \/ Reported(s) \/ NotReported(s)
         \/ Beat(s) \/ LeaseLost(s) \/ TimerFires(s) \/ RemoteReported(s)
  PROVE  \A x \in Slots : Goes(x)
<1> DEFINE r == run[s]
<1>1. r \in Runs
  BY DEF SystemInv, SystemTypeOK
<1>2. CASE UNCHANGED run
  BY <1>2, StillGoes
<1>3. ASSUME NEW step \in {"launch", "settle", "suspend", "complete"}, Goto(s, step),
             \/ r.pc = "report" /\ step = "launch"
             \/ r.pc = "up" /\ r.exit # "none" /\ step = "settle"
             \/ r.pc = "settle" /\ step \in {"suspend", "complete"}
      PROVE  \A x \in Slots : Goes(x)
  <2> DEFINE q == [r EXCEPT !.pc = step]
  <2>1. q.pc = step /\ q.job = r.job /\ q.tok = r.tok /\ q.sess = r.sess /\ q.exit = r.exit
    BY <1>1 DEF Runs
  <2>2. run' = [run EXCEPT ![s] = q]
    BY <1>3 DEF Goto
  <2> HIDE DEF q
  <2> QED
    BY <1>3, <2>1, <2>2, OneGoes DEF Moves
<1>4. CASE run' = [run EXCEPT ![s] = Idle]
  BY <1>4, OneGoes
<1>5. CASE LaunchRefused(s)
  <2> DEFINE q == [r EXCEPT !.pc = "up", !.exit = "nonzero"]
  <2>1. q.pc = "up" /\ q.job = r.job /\ q.tok = r.tok /\ q.sess = r.sess
    BY <1>1 DEF Runs
  <2>2. run' = [run EXCEPT ![s] = q] /\ r.pc = "launch"
    BY <1>5 DEF LaunchRefused, At
  <2> HIDE DEF q
  <2> QED
    BY <2>1, <2>2, OneGoes DEF Moves
<1>6. CASE SpawnError(s)
  <2> DEFINE q == [r EXCEPT !.pc = "settle", !.exit = "error"]
  <2>1. q.pc = "settle" /\ q.job = r.job /\ q.tok = r.tok /\ q.sess = r.sess
    BY <1>1 DEF Runs
  <2>2. run' = [run EXCEPT ![s] = q] /\ r.pc = "launch"
    BY <1>6 DEF SpawnError, At
  <2> HIDE DEF q
  <2> QED
    BY <2>1, <2>2, OneGoes DEF Moves
<1>7. CASE TimerFires(s)
  <2> DEFINE q == [r EXCEPT !.bound = TRUE]
  <2>1. q.pc = r.pc /\ q.job = r.job /\ q.tok = r.tok /\ q.sess = r.sess /\ q.exit = r.exit
    BY <1>1 DEF Runs
  <2>2. run' = [run EXCEPT ![s] = q]
    BY <1>7 DEF TimerFires
  <2> HIDE DEF q
  <2> QED
    BY <2>1, <2>2, OneGoes DEF Moves
<1>8. ASSUME NEW h \in {"killing", "ended"}, run' = [run EXCEPT ![s].hb = h]
      PROVE  \A x \in Slots : Goes(x)
  <2> DEFINE q == [r EXCEPT !.hb = h]
  <2>1. q.pc = r.pc /\ q.job = r.job /\ q.tok = r.tok /\ q.sess = r.sess /\ q.exit = r.exit
    BY <1>1 DEF Runs
  <2>2. run' = [run EXCEPT ![s] = q]
    BY <1>8
  <2> HIDE DEF q
  <2> QED
    BY <2>1, <2>2, OneGoes DEF Moves
<1>9. CASE HeartbeatKills(s)
  <2>1. PICK d, j, code : d = DriverOf[s] /\ j = r.job /\ code = "nonzero"
    OBVIOUS
  <2>2. d \in Drivers /\ container' = [container EXCEPT ![d][j] = 0]
    BY <1>9, <2>1, DriverOfAssumption DEF HeartbeatKills
  <2>3. run' = [Ended(d, j, code) EXCEPT ![s].hb = "ended"]
    BY <1>9, <2>1 DEF HeartbeatKills
  <2>4. Ended(d, j, code) \in [Slots -> Runs]
    BY <2>1, EndedKeeps DEF SystemInv, SystemTypeOK
  <2>5. ASSUME NEW x \in Slots PROVE Goes(x)
    <3>1. Ended(d, j, code)[x] = [Ended(d, j, code)[x] EXCEPT !.hb = @]
      BY <2>4 DEF Runs
    <3>2. \/ run'[x] = [Ended(d, j, code)[x] EXCEPT !.hb = "ended"]
          \/ run'[x] = [Ended(d, j, code)[x] EXCEPT !.hb = Ended(d, j, code)[x].hb]
      BY <2>3, <2>4, <3>1
    <3> QED
      BY <2>2, <3>2, EndedGoes
  <2> QED
    BY <2>5
<1> QED
  BY <1>2, <1>3, <1>4, <1>5, <1>6, <1>7, <1>8, <1>9
     DEF SessionReported, SessionNotReported, OrphanFails, HeartbeatKillFails, Closed, Exited, Settle, Reported,
         NotReported, Beat, LeaseLost, RemoteReported, At, driverVars

\* No step of a run but the coming up of its container brings one.
LEMMA LocalShrinks ==
  ASSUME SystemInv, NEW s \in Slots,
         \/ SessionReported(s) \/ SessionNotReported(s) \/ LaunchRefused(s) \/ SpawnError(s)
         \/ OrphanFails(s)
         \/ HeartbeatKills(s) \/ HeartbeatKillFails(s) \/ Closed(s) \/ Settle(s)
         \/ Reported(s) \/ NotReported(s)
         \/ Beat(s) \/ LeaseLost(s) \/ TimerFires(s) \/ RemoteReported(s)
  PROVE  Shrinks
<1>1. CASE HeartbeatKills(s)
  BY <1>1 DEF HeartbeatKills, Shrinks, SystemInv, SystemTypeOK
<1>2. CASE UNCHANGED <<container, started>>
  BY <1>2 DEF Shrinks
<1> QED
  BY <1>1, <1>2
     DEF SessionReported, SessionNotReported, OrphanFails, LaunchRefused, SpawnError, HeartbeatKillFails, Closed,
         Settle, Reported, NotReported, Beat, LeaseLost, TimerFires, RemoteReported, driverVars

LEMMA LocalOne ==
  ASSUME SystemInv, OneInv, Kept, NEW s \in Slots,
         \/ SessionNotReported(s) \/ LaunchRefused(s) \/ SpawnError(s)
         \/ OrphanFails(s)
         \/ HeartbeatKills(s) \/ HeartbeatKillFails(s) \/ Closed(s) \/ Settle(s) \/ NotReported(s)
         \/ Beat(s) \/ LeaseLost(s) \/ TimerFires(s)
  PROVE  OneInv'
<1>1. \A j \in Jobs : RowGoes(j)
  BY StillRows
     DEF SessionNotReported, OrphanFails, LaunchRefused, SpawnError, HeartbeatKills, HeartbeatKillFails, Closed,
         Settle, NotReported, LeaseLost, TimerFires, Beat, Heartbeat, RowGoes
<1> QED
  BY <1>1, LocalGoes, LocalShrinks, ShrinkOne

LEMMA UpOne ==
  ASSUME SystemInv, OneInv, NEW s \in Slots, ContainerUp(s) \/ OrphanUp(s)
  PROVE  OneInv'
<1> DEFINE d == DriverOf[s]
<1>1. /\ run[s].pc \in {"launch", "orphan"} /\ run[s].exit = "none"
      /\ run[s].job \in Jobs /\ d \in Drivers
  BY Claimed DEF ContainerUp, OrphanUp, At, OneInv, PlaceInv, RunPlaced, Early
<1>2. CanStart(d, {s})
  BY <1>1 DEF CanStart
<1>3. \A e \in Drivers, j \in Jobs : PlacedBy(d, {s}, e, j)
  <2>1. \A e \in Drivers, j \in Jobs :
          container'[e][j] = IF e = d /\ j = run[s].job THEN run[s].tok ELSE container[e][j]
    BY <1>1 DEF ContainerUp, OrphanUp, Starts, SystemInv, SystemTypeOK
  <2> QED
    BY <2>1 DEF PlacedBy
<1>4. \A j \in Jobs : StartedBy({s}, j)
  <2> TAKE j \in Jobs
  <2>1. started'[j] = IF j = run[s].job THEN started[j] \cup {<<run[s].tok, run[s].sess>>}
                                        ELSE started[j]
    BY <1>1 DEF ContainerUp, OrphanUp, Starts, SystemInv, SystemTypeOK
  <2>2. {<<run[u].tok, run[u].sess>> : u \in {v \in {s} : run[v].job = j}}
           = IF j = run[s].job THEN {<<run[s].tok, run[s].sess>>} ELSE {}
    OBVIOUS
  <2> QED
    BY <2>1, <2>2 DEF StartedBy
<1>5. \A x \in Slots : RunsBy({s}, x)
  BY <1>1 DEF ContainerUp, OrphanUp, Starts, Idle, RunsBy, SystemInv, SystemTypeOK, Runs
<1>6. UNCHANGED boardVars
  BY DEF ContainerUp, OrphanUp, Starts
<1> QED
  BY <1>1, <1>2, <1>3, <1>4, <1>5, <1>6, ComesUpOne DEF ComesUp

\* The reports of a session: the row gets the one of the run that holds the lease.
LEMMA SessionOne ==
  ASSUME SystemInv, OneInv, Kept, NEW s \in Slots, SessionReported(s) \/ RemoteReported(s)
  PROVE  OneInv'
<1>0. PICK j, t, y : j = run[s].job /\ t = run[s].tok /\ y = run[s].sess
  OBVIOUS
<1>1. PICK r : Session(j, t, y, r) /\ run[s].pc # "free" /\ MayReport(run[s], s)
  BY <1>0 DEF SessionReported, RemoteReported, At, MayReport
<1>2. j \in Jobs /\ t \in 1 .. issued[j] /\ issued[j] \in Nat
  BY <1>0, <1>1, Claimed DEF SystemInv, IInv, TypeOK
<1>3. status[j] = "running" /\ token[j] = t /\ t = issued[j]
  BY <1>1, <1>2 DEF Session, MayWrite, Holds, SystemInv, IInv, TokenInv
<1>4. y = IF session[j] = 0 THEN t ELSE session[j]
  BY <1>0, <1>1, <1>3 DEF SystemInv, RunInv, RunOk, SoundRun
<1>5. /\ UNCHANGED <<status, issued>>
      /\ \A k \in Jobs : session'[k] = IF k = j THEN y ELSE session[k]
  BY <1>1, <1>2 DEF Session, SystemInv, IInv, TypeOK
<1>6. PlaceInv'
  BY LocalGoes, LocalShrinks, ShrinkPlace DEF OneInv
<1>7. ASSUME NEW k \in Jobs, k # j \/ session[j] # 0 PROVE RowOk(k)'
  <2>1. RowGoes(k)
    BY <1>4, <1>5, <1>7 DEF RowGoes
  <2> QED
    BY <2>1, LocalGoes, LocalShrinks, ShrinkRow DEF OneInv
<1>8. ASSUME session[j] = 0 PROVE RowOk(j)'
  <2>1. session'[j] = t /\ y = t
    BY <1>2, <1>4, <1>5, <1>8
  <2>2. \A x \in Slots : Goes(x)
    BY LocalGoes
  <2>3. UNCHANGED <<container, started>>
    BY DEF SessionReported, RemoteReported, driverVars
  <2>4. ASSUME NEW x \in Slots, Waiting(run[x])', run'[x].job = j
        PROVE  /\ Waiting(run[x]) /\ run[x].job = j /\ run'[x].tok = run[x].tok /\ run'[x].sess = run[x].sess
               /\ run[x].tok \in 1 .. t /\ run[x].sess <= run[x].tok
    <3>1. /\ Waiting(run[x]) /\ run[x].pc # "free" /\ Early(run[x]) /\ run[x].job = j
          /\ run'[x].tok = run[x].tok /\ run'[x].sess = run[x].sess
      BY <2>2, <2>4 DEF Goes, Waiting, Early
    <3>2. run[x].tok \in 1 .. t
      BY <1>3, <3>1, Claimed
    <3>3. run[x].sess <= run[x].tok
      BY <3>1 DEF OneInv, PlaceInv, RunPlaced
    <3> QED
      BY <3>1, <3>2, <3>3
  <2>5. \A x \in Slots : Waits(x, j, t)' => run'[x].tok = t
    BY <1>2, <1>3, <2>1, <2>4 DEF Waits
  <2>6. ASSUME NEW d \in Drivers, <<container[d][j], t>> \in started[j] PROVE container[d][j] = t
    BY <1>2, <1>3, <2>6 DEF OneInv, PlaceInv, StartedInOrder
  <2>7. ASSUME NEW x \in Slots, Waiting(run[x])', OfClaim(run[x], j, t)' PROVE run'[x].sess = t
    <3>1. run[x].pc # "free" /\ run[x].job = j /\ run[x].tok = t /\ run'[x].sess = run[x].sess
      BY <2>4, <2>7 DEF OfClaim, Waiting
    <3>2. x = s
      BY <1>0, <1>1, <3>1 DEF OneInv, PlaceInv, RunsApart, OfClaim
    <3> QED
      BY <1>0, <2>1, <3>1, <3>2
  <2>8. ASSUME NEW d \in Drivers, container[d][j] = t PROVE <<t, t>> \in started[j]
    <3>1. CASE SessionReported(s)
      BY <1>0, <2>8, <3>1 DEF SessionReported, At, OneInv, PlaceInv, RunPlaced, Early
    <3>2. CASE RemoteReported(s)
      BY <1>0, <2>1, <3>2 DEF RemoteReported
    <3> QED
      BY <3>1, <3>2
  <2>9. issued'[j] = t /\ status'[j] = "running"
    BY <1>3, <1>5
  <2>10. \A d \in Drivers : Drives(d, j, t)' <=> <<container[d][j], t>> \in started[j]
    BY <2>3 DEF Drives
  <2>11. session'[j] # 0 =>
             /\ \A x \in Slots : Waits(x, j, session[j])' => run'[x].tok = issued'[j]
             /\ \A d \in Drivers : Drives(d, j, session[j])' => container'[d][j] = issued'[j]
    BY <2>1, <2>3, <2>5, <2>6, <2>9 DEF Drives, Waits
  <2>12. /\ \A x \in Slots : Waiting(run[x])' /\ OfClaim(run[x], j, issued[j])' => run'[x].sess = session'[j]
         /\ \A d \in Drivers : container'[d][j] # 0 /\ container'[d][j] = issued'[j]
                => Drives(d, j, session[j])'
    BY <2>1, <2>3, <2>7, <2>8, <2>9 DEF Drives, OfClaim
  <2> QED
    BY <2>9, <2>11, <2>12 DEF RowOk
<1> QED
  BY <1>2, <1>6, <1>7, <1>8 DEF OneInv

\* The last report: the container of the claim has closed, or never came up.
LEMMA ReportedOne ==
  ASSUME SystemInv, OneInv, Kept, NEW s \in Slots, Reported(s)
  PROVE  OneInv'
<1>0. PICK j, t : j = run[s].job /\ t = run[s].tok
  OBVIOUS
<1>1. /\ Early(run[s]) \/ Late(run[s])
      /\ run[s].pc # "free"
      /\ Suspend(j, t) \/ Complete(j, t, "failed") \/ Complete(j, t, "succeeded")
  BY <1>0 DEF Reported, At, Outcome, Early, Late
<1>2. j \in Jobs /\ issued[j] \in Nat
  BY <1>0, <1>1, Claimed DEF SystemInv, IInv, TypeOK
<1>3. t = issued[j] /\ t # 0
  BY <1>0, <1>1, <1>2, Claimed DEF Suspend, Complete, MayWrite, Holds, SystemInv, IInv, TokenInv
<1>4. /\ UNCHANGED <<issued, session>>
      /\ \A k \in Jobs : k # j => status'[k] = status[k]
      /\ status'[j] # "running"
  BY <1>1, <1>2 DEF Suspend, Complete, SystemInv, IInv, TypeOK
<1>5. PlaceInv'
  BY LocalGoes, LocalShrinks, ShrinkPlace DEF OneInv
<1>6. ASSUME NEW k \in Jobs, k # j PROVE RowOk(k)'
  <2>1. RowGoes(k)
    BY <1>4, <1>6 DEF RowGoes
  <2> QED
    BY <2>1, LocalGoes, LocalShrinks, ShrinkRow DEF OneInv
<1>7. RowOk(j)'
  <2>1. UNCHANGED <<container, started>> /\ \A x \in Slots : run'[x] = IF x = s THEN Idle ELSE run[x]
    BY DEF Reported, SystemInv, SystemTypeOK
  <2>2. \A d \in Drivers : container[d][j] # t
    BY <1>0, <1>1 DEF OneInv, PlaceInv, RunPlaced
  <2>3. ASSUME NEW x \in Slots PROVE ~OfClaim(run[x], j, t)'
    <3>1. CASE x = s
      BY <2>1, <3>1 DEF OfClaim, Idle
    <3>2. CASE x # s
      BY <1>0, <1>1, <2>1, <3>2 DEF OneInv, PlaceInv, RunsApart, OfClaim
    <3> QED
      BY <3>1, <3>2
  <2>4. \A x \in Slots : Waiting(run[x])' => run'[x] = run[x]
    BY <2>1 DEF Waiting, Idle
  <2>5. session[j] # 0 =>
            /\ \A x \in Slots : Waits(x, j, session[j]) => run[x].tok = issued[j]
            /\ \A d \in Drivers : Drives(d, j, session[j]) => container[d][j] = issued[j]
    BY <1>2 DEF OneInv, RowOk
  <2>6. session'[j] # 0 =>
            /\ \A x \in Slots : Waits(x, j, session[j])' => run'[x].tok = issued'[j]
            /\ \A d \in Drivers : Drives(d, j, session[j])' => container'[d][j] = issued'[j]
    BY <1>4, <2>1, <2>4, <2>5 DEF Waits, Drives
  <2>7. \A x \in Slots : ~OfClaim(run[x], j, issued[j])'
    BY <1>3, <1>4, <2>3 DEF OfClaim
  <2> QED
    BY <1>3, <1>4, <2>1, <2>2, <2>6, <2>7 DEF RowOk
<1> QED
  BY <1>2, <1>5, <1>6, <1>7 DEF OneInv

-----------------------------------------------------------------------------
(* Claims that commit                                                      *)

\* A session that the claim keeps has nobody who runs it, or is about to.
LEMMA KeptIsNobodys ==
  ASSUME SystemInv, OneInv, NEW j \in Jobs, KeptSession(j) # 0
  PROVE  /\ KeptSession(j) = session[j] /\ session[j] # 0
         /\ \A s \in Slots : ~Waits(s, j, session[j])
         /\ \A d \in Drivers : ~Drives(d, j, session[j])
<1>1. status[j] = "queued" /\ KeptSession(j) = session[j]
  BY DEF KeptSession
<1>2. RowOk(j) /\ session[j] # 0
  BY <1>1 DEF OneInv
<1>3. ASSUME NEW s \in Slots, Waits(s, j, session[j]) PROVE FALSE
  BY <1>1, <1>2, <1>3 DEF RowOk, Waits, Waiting, OfClaim
<1>4. ASSUME NEW d \in Drivers, Drives(d, j, session[j]) PROVE FALSE
  <2>1. container[d][j] # 0
    BY <1>4 DEF Drives, OneInv, PlaceInv, StartedInOrder
  <2> QED
    BY <1>1, <1>2, <1>4, <2>1 DEF RowOk
<1> QED
  BY <1>1, <1>2, <1>3, <1>4

\* What a claim writes.
LEMMA Committed ==
  ASSUME SystemInv, NEW c \in Claimers, ClaimCommit(c), NEW j, j = lock[c]
  PROVE  /\ j \in Jobs /\ issued[j] \in Nat
         /\ issued'[j] = issued[j] + 1 /\ status'[j] = "running" /\ session'[j] = KeptSession(j)
         /\ \A k \in Jobs : k # j => RowGoes(k)
<1>1. j \in Jobs
  BY DEF ClaimCommit, SystemInv, IInv, StageInv, TypeOK
<1> QED
  BY <1>1 DEF ClaimCommit, SystemInv, IInv, TypeOK, RowGoes

\* The claim nobody hears of leaves a row that no run and no container is of.
LEMMA AnswerLostOne ==
  ASSUME SystemInv, OneInv, Kept, NEW c \in Claimers, AnswerLost(c)
  PROVE  OneInv'
<1>0. PICK j : j = lock[c]
  OBVIOUS
<1>1. /\ j \in Jobs /\ issued[j] \in Nat
      /\ issued'[j] = issued[j] + 1 /\ status'[j] = "running" /\ session'[j] = KeptSession(j)
      /\ \A k \in Jobs : k # j => RowGoes(k)
  BY <1>0, Committed DEF AnswerLost
<1>2. UNCHANGED <<run, container, started>> /\ Shrinks /\ \A s \in Slots : Goes(s)
  BY StillGoes DEF AnswerLost, Shrinks
<1>3. PlaceInv'
  BY <1>2, ShrinkPlace DEF OneInv
<1>4. ASSUME NEW k \in Jobs, k # j PROVE RowOk(k)'
  BY <1>1, <1>2, <1>4, ShrinkRow DEF OneInv
<1>5. RowOk(j)'
  <2>1. session'[j] # 0 => /\ \A s \in Slots : ~Waits(s, j, session[j])'
                           /\ \A d \in Drivers : ~Drives(d, j, session[j])'
    BY <1>1, <1>2, KeptIsNobodys DEF Waits, Drives
  <2>2. \A s \in Slots : ~OfClaim(run[s], j, issued[j])'
    BY <1>1, <1>2, Claimed DEF OfClaim
  <2>3. \A d \in Drivers : container'[d][j] # issued'[j]
    BY <1>1, <1>2 DEF OneInv, PlaceInv, ContainersPlaced
  <2> QED
    BY <1>1, <2>1, <2>2, <2>3 DEF RowOk
<1> QED
  BY <1>1, <1>3, <1>4, <1>5 DEF OneInv

\* The run that a claim starts is the first of its claim, and alone with its session.
LEMMA AnswerOne ==
  ASSUME SystemInv, RanInv, OneInv, Kept, NEW c \in Claimers, Answer(c)
  PROVE  OneInv'
<1>0. PICK d, j, n : d = asker[c] /\ j = lock[c] /\ n = NewRun(d, j)
  OBVIOUS
<1>1. /\ j \in Jobs /\ issued[j] \in Nat
      /\ issued'[j] = issued[j] + 1 /\ status'[j] = "running" /\ session'[j] = KeptSession(j)
      /\ \A k \in Jobs : k # j => RowGoes(k)
  BY <1>0, Committed DEF Answer
<1>2. PICK f \in Slots : /\ run[f].pc = "free"
                         /\ \A s \in Slots : run'[s] = IF s = f THEN n ELSE run[s]
  BY <1>0 DEF Answer, FreeSlots, SlotsOf, SystemInv, SystemTypeOK
<1>3. UNCHANGED <<container, started>> /\ Shrinks
  BY DEF Answer, Shrinks
<1>4. /\ n.job = j /\ n.tok = issued'[j] /\ n.exit = "none" /\ Early(n)
      /\ n.sess \in {0, issued'[j], KeptSession(j)}
      /\ Waiting(n) /\ KeptSession(j) # 0 => n.sess = KeptSession(j)
      /\ n.sess = 0 \/ n.sess = issued'[j] \/ KeptSession(j) # 0
  BY <1>0, <1>1 DEF NewRun, Refused, Minted, Early, Waiting
<1>5. session[j] \in 0 .. issued[j] /\ n.sess <= n.tok
  BY <1>1, <1>4 DEF RanInv, SessionsIssued, KeptSession
<1>6. \A s \in Slots : run[s].pc # "free" => run[s].job \in Jobs /\ run[s].tok \in 1 .. issued[run[s].job]
                                              /\ run[s].sess \in 0 .. issued[run[s].job]
  BY Claimed DEF RanInv, SessionGiven
<1>7. \A e \in Drivers : container[e][j] # issued'[j]
  BY <1>1 DEF OneInv, PlaceInv, ContainersPlaced
<1>8. \A p \in started[j] : p[1] \in 1 .. issued[j] /\ p[2] <= p[1] /\ p[2] \in Nat
  BY <1>1 DEF OneInv, PlaceInv, StartedInOrder, SystemInv, SystemTypeOK
<1>9. ASSUME NEW x \in Nat \ {0}, Waiting(n), n.sess = x
      PROVE  /\ \A s \in Slots \ {f} : ~Waits(s, j, x)
             /\ \A e \in Drivers : ~Drives(e, j, x)
  <2>1. CASE x = issued'[j]
    <3>1. \A s \in Slots : ~Waits(s, j, x)
      BY <1>1, <1>6, <2>1 DEF Waits, Waiting
    <3>2. \A e \in Drivers : ~Drives(e, j, x)
      BY <1>1, <1>8, <2>1 DEF Drives
    <3> QED
      BY <3>1, <3>2
  <2>2. CASE x = KeptSession(j)
    <3>1. KeptSession(j) # 0
      BY <2>2
    <3>2. x = session[j]
      BY <1>1, <2>2, <3>1, KeptIsNobodys
    <3> QED
      BY <1>1, <3>1, <3>2, KeptIsNobodys
  <2> QED
    BY <1>4, <1>9, <2>1, <2>2
<1>10. PlaceInv'
  <2>1. RunsApart'
    <3> SUFFICES ASSUME NEW s \in Slots, NEW t \in Slots, run'[s].pc # "free", run'[t].pc # "free",
                        run'[t].job = run'[s].job, run'[t].tok = run'[s].tok
                 PROVE  s = t
      BY DEF RunsApart, OfClaim
    <3>1. \A x \in Slots \ {f} : run[x].pc # "free" => ~(run[x].job = j /\ run[x].tok = issued'[j])
      BY <1>1, <1>6
    <3> QED
      BY <1>2, <1>4, <3>1 DEF OneInv, PlaceInv, RunsApart, OfClaim
  <2>2. ContainersPlaced'
    <3>1. \A k \in Jobs : issued[k] \in Nat /\ issued'[k] \in Nat /\ issued[k] <= issued'[k]
      BY IssuedGrows DEF SystemInv, Kept
    <3> QED
      BY <1>3, <3>1 DEF OneInv, PlaceInv, ContainersPlaced
  <2>3. StartedInOrder'
    <3>1. \A k \in Jobs : issued[k] \in Nat /\ issued'[k] \in Nat /\ issued[k] <= issued'[k]
      BY IssuedGrows DEF SystemInv, Kept
    <3> QED
      BY <1>3, <3>1 DEF OneInv, PlaceInv, StartedInOrder
  <2>4. OneWriterEach'
    <3> SUFFICES ASSUME NEW k \in Jobs, NEW x \in Nat \ {0}
                 PROVE  /\ \A a, b \in Drivers : Drives(a, k, x)' /\ Drives(b, k, x)' => a = b
                        /\ \A s, t \in Slots : Waits(s, k, x)' /\ Waits(t, k, x)' => s = t
                        /\ \A a \in Drivers, s \in Slots : ~(Drives(a, k, x)' /\ Waits(s, k, x)')
      BY DEF OneWriterEach
    <3>1. \A a \in Drivers : Drives(a, k, x)' <=> Drives(a, k, x)
      BY <1>3 DEF Drives
    <3>2. \A s \in Slots \ {f} : Waits(s, k, x)' <=> Waits(s, k, x)
      BY <1>2 DEF Waits
    <3>3. Waits(f, k, x)' <=> Waiting(n) /\ k = j /\ x = n.sess
      BY <1>2, <1>4 DEF Waits, Waiting
    <3> QED
      BY <1>9, <3>1, <3>2, <3>3 DEF OneInv, PlaceInv, OneWriterEach
  <2>5. ASSUME NEW s \in Slots PROVE RunPlaced(s)'
    <3>1. CASE s = f
      BY <1>1, <1>2, <1>3, <1>4, <1>5, <1>7, <1>8, <3>1 DEF RunPlaced, Early, Late
    <3>2. CASE s # f
      BY <1>2, <1>3, <3>2 DEF OneInv, PlaceInv, RunPlaced
    <3> QED
      BY <3>1, <3>2
  <2> QED
    BY <2>1, <2>2, <2>3, <2>4, <2>5 DEF PlaceInv
<1>11. RowOk(j)'
  <2>1. \A s \in Slots : OfClaim(run[s], j, issued[j])' => s = f
    BY <1>1, <1>2, <1>6 DEF OfClaim
  <2>2. session'[j] # 0 => /\ \A s \in Slots : Waits(s, j, session[j])' => run'[s].tok = issued'[j]
                           /\ \A e \in Drivers : ~Drives(e, j, session[j])'
    <3> SUFFICES ASSUME KeptSession(j) # 0
                 PROVE  /\ \A s \in Slots : Waits(s, j, session[j])' => run'[s].tok = issued'[j]
                        /\ \A e \in Drivers : ~Drives(e, j, session[j])'
      BY <1>1
    <3> QED
      BY <1>1, <1>2, <1>3, <1>4, KeptIsNobodys DEF Waits, Drives
  <2>3. session'[j] # 0 =>
            \A s \in Slots : Waiting(run[s])' /\ OfClaim(run[s], j, issued[j])' => run'[s].sess = session'[j]
    BY <1>1, <1>2, <1>4, <2>1 DEF Waiting
  <2>4. \A e \in Drivers : container'[e][j] # issued'[j]
    BY <1>3, <1>7
  <2> QED
    BY <1>1, <2>2, <2>3, <2>4 DEF RowOk
<1>12. ASSUME NEW k \in Jobs, k # j PROVE RowOk(k)'
  <2>1. RowOk(k) /\ RowGoes(k)
    BY <1>1, <1>12 DEF OneInv
  <2>2. \A s \in Slots : OfClaim(run[s], k, issued[k])' => OfClaim(run[s], k, issued[k]) /\ run'[s] = run[s]
    BY <1>2, <1>4, <1>12, <2>1 DEF OfClaim, RowGoes
  <2>3. \A s \in Slots : Waits(s, k, session[k])' => Waits(s, k, session[k]) /\ run'[s] = run[s]
    BY <1>2, <1>4, <1>12, <2>1 DEF Waits, RowGoes
  <2>4. \A e \in Drivers : Drives(e, k, session[k])' <=> Drives(e, k, session[k])
    BY <1>3, <2>1 DEF Drives, RowGoes
  <2> QED
    BY <1>3, <2>1, <2>2, <2>3, <2>4 DEF RowOk, RowGoes, Waiting
<1> QED
  BY <1>1, <1>10, <1>11, <1>12 DEF OneInv

LEMMA NextOne ==
  ASSUME SystemInv, RanInv, OneInv, [SystemNext]_systemVars
  PROVE  OneInv'
<1>1. Kept
  BY NextKept
<1>2. CASE UNCHANGED systemVars
  <2>1. UNCHANGED <<boardVars, run, container, started>>
    BY <1>2 DEF systemVars, driverVars
  <2> QED
    BY <1>1, <2>1, StillGoes, StillRows, ShrinkOne DEF Shrinks
<1>3. CASE SystemNext
  BY <1>1, <1>3, QuietOne, ProcessOne, ContainerOne, LocalOne, UpOne, SessionOne, ReportedOne,
     AnswerLostOne, AnswerOne DEF SystemNext, ClaimSteps, RunSteps
<1> QED
  BY <1>2, <1>3

LEMMA OneInvariance == SystemSpec => [](SystemInv /\ OneInv)
<1>1. SystemInit => OneInv
  <2> SUFFICES ASSUME SystemInit PROVE OneInv
    OBVIOUS
  <2> QED
    BY DEF SystemInit, Init, OneInv, PlaceInv, RunsApart, ContainersPlaced, StartedInOrder,
           OneWriterEach, RunPlaced, RowOk, Drives, Waits, Waiting, Early, Late, OfClaim, Idle
<1>2. SystemInv /\ RanInv /\ OneInv /\ [SystemNext]_systemVars => OneInv'
  BY NextOne
<1> QED
  BY <1>1, <1>2, SystemInvariance, RanInvariance, PTL DEF SystemSpec

\* No job is reported finished, or parked, with a container of its last run left (loop.ts settle,
\* docker.ts run): what is reported is over, whatever crashes, however late a container comes up.
THEOREM SettledHasStopped == SystemSpec => []SettledMeansStopped
<1>1. SystemInv /\ OneInv => SettledMeansStopped
  BY DEF OneInv, RowOk, SettledMeansStopped
<1> QED
  BY <1>1, OneInvariance, PTL

\* A session has one writer, in any fleet: a container that outlives its driver or its lease never
\* meets another with the same transcript (job-store.ts claim, which keeps a session or clears it).
THEOREM TranscriptsHaveOneWriter == SystemSpec => []SessionHasOneWriter
<1>1. SystemInv /\ OneInv => SessionHasOneWriter
  <2> SUFFICES ASSUME SystemInv, OneInv, NEW j \in Jobs, NEW d \in Drivers, NEW e \in Drivers,
                      NEW x \in 1 .. issued[j], Drives(d, j, x), Drives(e, j, x)
               PROVE  d = e
    BY DEF SessionHasOneWriter, Drives
  <2>1. x \in Nat \ {0}
    BY DEF SystemInv, IInv, TypeOK
  <2> QED
    BY <2>1 DEF OneInv, PlaceInv, OneWriterEach
<1> QED
  BY <1>1, OneInvariance, PTL

\* The session a running job is shown with is the one its container drives (loop.ts, the refusals;
\* job-store.ts claim and session), reported in time, late or by the remote watcher.
THEOREM TheLinkIsRight == SystemSpec => []BoardShowsTheSession
<1>1. SystemInv /\ OneInv => BoardShowsTheSession
  BY DEF SystemInv, IInv, TokenInv, OneInv, RowOk, Drives, BoardShowsTheSession
<1> QED
  BY <1>1, OneInvariance, PTL
=============================================================================
