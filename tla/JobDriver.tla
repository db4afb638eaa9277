------------------------------ MODULE JobDriver ------------------------------
(***************************************************************************)
(* The drivers that work off the job board: loop.ts (claim loop, run of a  *)
(* job, heartbeat), docker.ts (containers, kill, the two timers) and the   *)
(* board client of board.ts, composed with the board of JobBoard.          *)
(*                                                                         *)
(* A call to the board may be executed and answered, or never arrive, or   *)
(* be executed and its answer lost.  Every driver has a docker daemon of   *)
(* its own; a container is known there by the name of its job, not by the  *)
(* attempt that started it, and it outlives the driver that started it.    *)
(*                                                                         *)
(* A slot is one of a driver's `concurrency` places for a run.  The steps  *)
(* of a run:                                                               *)
(*   refuse    the claim cannot be run here: it is failed at once          *)
(*   report    the session just minted is being reported                   *)
(*   launch    docker run is spawned, the container does not exist yet     *)
(*   up        docker run has not closed, or its exit is not yet noticed   *)
(*   settle    it has closed; the heartbeat is being waited for            *)
(*   suspend, complete   the last report is being sent                     *)
(* A docker run that outlives its driver before the container exists is an *)
(* orphan: it keeps the place of its run until it has come up or failed,   *)
(* so a driver is given more places than its concurrency where that may    *)
(* not count.                                                              *)
(***************************************************************************)
EXTENDS JobBoard

CONSTANTS
    Drivers,          \* driver processes, each with its docker daemon
    Slots,            \* places for a run
    DriverOf,         \* the driver each slot belongs to
    RemoteDrivers,    \* drivers with RUNNER_REMOTE_CONTROL
    OpencodeDrivers,  \* drivers with RUNNER_CLI=opencode
    Unattributed,     \* jobs whose author has no workspace
    Stoppable,        \* drivers that are ever told to stop claiming
    DaemonFalters,    \* can docker kill fail, or a container come up only after the timer fired?
    MaxResumes,       \* bound: people resume a job while it was parked no more often than this
    None              \* no driver

ASSUME DriverOfAssumption == DriverOf \in [Slots -> Drivers]
ASSUME ConfigAssumption == /\ RemoteDrivers \subseteq Drivers
                           /\ OpencodeDrivers \subseteq Drivers \ RemoteDrivers
                           /\ Stoppable \subseteq Drivers
ASSUME UnattributedAssumption == Unattributed \subseteq Jobs
ASSUME DaemonFaltersAssumption == DaemonFalters \in BOOLEAN
ASSUME MaxResumesAssumption == MaxResumes \in Nat
ASSUME NoneAssumption == None \notin Drivers

VARIABLES
    loop,       \* the claim loop of each driver: polling, draining or down
    asker,      \* the driver that waits for the claim on each connection, or None
    run,        \* the run in each slot
    container,  \* per daemon and job: the attempt whose container has the name, or 0
    kills,      \* docker kill commands under way that no run waits for
    started     \* history: <<attempt, session>> of each job's containers that came up

driverVars == <<loop, asker, run, container, kills, started>>
systemVars == <<boardVars, driverVars>>

Runs == [pc : {"free", "refuse", "report", "launch", "up", "settle", "suspend", "complete",
               "orphan"},
         job : Jobs \cup {0},
         tok : Nat,                                      \* the lease token of the claim
         sess : Nat,                                     \* the session given to the runner
         hb : {"beating", "killing", "ended"},           \* the heartbeat; lost unless beating
         exit : {"none", "zero", "nonzero", "error"},    \* error: docker run never ran
         bound : BOOLEAN]                                \* timedOut, or idled

Idle == [pc |-> "free", job |-> 0, tok |-> 0, sess |-> 0,
         hb |-> "ended", exit |-> "none", bound |-> FALSE]

SystemTypeOK ==
    /\ TypeOK
    /\ loop \in [Drivers -> {"polling", "draining", "down"}]
    /\ asker \in [Claimers -> Drivers \cup {None}]
    /\ run \in [Slots -> Runs]
    /\ container \in [Drivers -> [Jobs -> Nat]]
    /\ kills \subseteq Drivers \X Jobs
    /\ started \in [Jobs -> SUBSET (Nat \X Nat)]

SystemInit ==
    /\ Init
    /\ loop = [d \in Drivers |-> "polling"]
    /\ asker = [c \in Claimers |-> None]
    /\ run = [s \in Slots |-> Idle]
    /\ container = [d \in Drivers |-> [j \in Jobs |-> 0]]
    /\ kills = {}
    /\ started = [j \in Jobs |-> {}]

SlotsOf(d) == {s \in Slots : DriverOf[s] = d}
FreeSlots(d) == {s \in SlotsOf(d) : run[s].pc = "free"}
At(s, step) == run[s].pc = step
Goto(s, step) == run' = [run EXCEPT ![s].pc = step]

-----------------------------------------------------------------------------
(* The claim loop                                                          *)

\* The loop asks again when it has a free slot and waits for nothing else: neither
\* for the answer to another claim nor for the report of a job it refused.
Ask(d, c) ==
    /\ loop[d] = "polling"
    /\ FreeSlots(d) # {}
    /\ \A s \in SlotsOf(d) : ~At(s, "refuse")
    /\ \A e \in Claimers : asker[e] # d
    /\ asker[c] = None
    /\ ClaimRetire(c)
    /\ asker' = [asker EXCEPT ![c] = d]
    /\ UNCHANGED <<loop, run, container, kills, started>>

\* Rows whose workers may be writing them while the claim looks for one.
Busy == {j \in Jobs : /\ status[j] = "running"
                     /\ \E s \in Slots : run[s].job = j /\ ~At(s, "orphan")}

Select(c) ==
    /\ \E busy \in SUBSET Busy, j \in Jobs : ClaimSelect(c, j, busy)
    /\ UNCHANGED driverVars

NothingToClaim(c) ==
    /\ \E busy \in SUBSET Busy : ClaimEmpty(c, busy)
    /\ asker' = [asker EXCEPT ![c] = None]
    /\ UNCHANGED <<loop, run, container, kills, started>>

ClaimFails(c) ==
    /\ ClaimAbort(c)
    /\ asker' = [asker EXCEPT ![c] = None]
    /\ UNCHANGED <<loop, run, container, kills, started>>

RefusedUnattributed(d, j) == j \in Unattributed  \* seeded bug: opencode takes parked sessions

\* Neither a job without a workspace nor a parked session under opencode is run.
Refused(d, j) == j \in Unattributed \/ (d \in OpencodeDrivers /\ KeptSession(j) # 0)

MintedAlways(d, j) == d \notin OpencodeDrivers   \* seeded bug: a resume mints a session too

\* A run starts a session of its own unless it resumes one; under opencode it has none.
Minted(d, j) == KeptSession(j) = 0 /\ d \notin OpencodeDrivers

\* What the loop makes of a claim.
NewRun(d, j) ==
    [pc |-> IF Refused(d, j) THEN "refuse" ELSE IF Minted(d, j) THEN "report" ELSE "launch",
     job |-> j,
     tok |-> issued[j] + 1,
     sess |-> IF d \in OpencodeDrivers THEN 0
              ELSE IF Minted(d, j) THEN issued[j] + 1 ELSE KeptSession(j),
     hb |-> IF Refused(d, j) THEN "ended" ELSE "beating",
     exit |-> "none",
     bound |-> FALSE]

\* The claim commits and its answer reaches the driver.
Answer(c) ==
    /\ asker[c] # None
    /\ ClaimCommit(c)
    /\ \E s \in FreeSlots(asker[c]) :
           run' = [run EXCEPT ![s] = NewRun(asker[c], lock[c])]
    /\ asker' = [asker EXCEPT ![c] = None]
    /\ UNCHANGED <<loop, container, kills, started>>

\* The claim commits, but nobody hears of it.
AnswerLost(c) ==
    /\ ClaimCommit(c)
    /\ asker' = [asker EXCEPT ![c] = None]
    /\ UNCHANGED <<loop, run, container, kills, started>>

\* The first signal stops the claim loop; what is running is finished.
StopClaiming(d) ==
    /\ d \in Stoppable
    /\ loop[d] = "polling"
    /\ loop' = [loop EXCEPT ![d] = "draining"]
    /\ UNCHANGED <<boardVars, asker, run, container, kills, started>>

Orphan(r) == [r EXCEPT !.pc = "orphan", !.hb = "ended"]

\* The process ends: a crash, a second signal, or a drain that is over.  Its runs
\* and its calls are gone; its containers are not, and those being launched may
\* still come up, at once or later.
Exit(d) ==
    /\ loop[d] # "down"
    /\ loop' = [loop EXCEPT ![d] = "down"]
    /\ \E late \in SUBSET {s \in SlotsOf(d) : At(s, "launch")} :
           run' = [s \in Slots |-> IF s \in late THEN Orphan(run[s])
                                  ELSE IF DriverOf[s] = d /\ ~At(s, "orphan") THEN Idle
                                  ELSE run[s]]
    /\ asker' = [c \in Claimers |-> IF asker[c] = d THEN None ELSE asker[c]]
    /\ UNCHANGED <<boardVars, container, kills, started>>

\* There is nothing left to drain.
Drained(d) ==
    /\ loop[d] = "draining"
    /\ \A s \in SlotsOf(d) : At(s, "free") \/ At(s, "orphan")
    /\ \A c \in Claimers : asker[c] # d

Restart(d) ==
    /\ loop[d] = "down"
    /\ loop' = [loop EXCEPT ![d] = "polling"]
    /\ UNCHANGED <<boardVars, asker, run, container, kills, started>>

-----------------------------------------------------------------------------
(* A run                                                                   *)

\* A report reaches the board, and finds the lease still held.
SessionReported(s) ==
    /\ At(s, "report")
    /\ Session(run[s].job, run[s].tok, run[s].sess, 0)
    /\ Goto(s, "launch")
    /\ UNCHANGED <<loop, asker, container, kills, started>>

\* It is lost, or refused: either way the run goes on.
SessionNotReported(s) ==
    /\ At(s, "report")
    /\ Goto(s, "launch")
    /\ UNCHANGED <<boardVars, loop, asker, container, kills, started>>

\* The container of the run in s comes up, and the place is nxt from then on.
Starts(s, nxt) ==
    LET d == DriverOf[s] j == run[s].job IN
    /\ container[d][j] = 0
    /\ container' = [container EXCEPT ![d][j] = run[s].tok]
    /\ started' = [started EXCEPT ![j] = @ \cup {<<run[s].tok, run[s].sess>>}]
    /\ run' = [run EXCEPT ![s] = nxt]
    /\ UNCHANGED <<boardVars, loop, asker, kills>>

ContainerUp(s) == At(s, "launch") /\ Starts(s, [run[s] EXCEPT !.pc = "up"])

\* The driver that asked for it is gone, and nobody waits for it.
OrphanUp(s) == At(s, "orphan") /\ Starts(s, Idle)

OrphanFails(s) ==
    /\ At(s, "orphan")
    /\ run' = [run EXCEPT ![s] = Idle]
    /\ UNCHANGED <<boardVars, loop, asker, container, kills, started>>

\* docker run starts nothing and exits with an error: the daemon refuses, as it does
\* when the name is taken.
LaunchRefused(s) ==
    /\ At(s, "launch")
    /\ run' = [run EXCEPT ![s].pc = "up", ![s].exit = "nonzero"]
    /\ UNCHANGED <<boardVars, loop, asker, container, kills, started>>

\* docker itself cannot be spawned.
SpawnError(s) ==
    /\ At(s, "launch")
    /\ run' = [run EXCEPT ![s].pc = "settle", ![s].exit = "error"]
    /\ UNCHANGED <<boardVars, loop, asker, container, kills, started>>

\* The runs after the container of job j on daemon d has ended with that code.
Ended(d, j, code) ==
    [s \in Slots |->
        IF DriverOf[s] = d /\ run[s].job = j /\ run[s].tok = container[d][j] /\ At(s, "up")
        THEN [run[s] EXCEPT !.exit = code] ELSE run[s]]

ContainerExits(d, j) ==
    /\ container[d][j] # 0
    /\ container' = [container EXCEPT ![d][j] = 0]
    /\ \E code \in {"zero", "nonzero"} : run' = Ended(d, j, code)
    /\ UNCHANGED <<boardVars, loop, asker, kills, started>>

TimerKillForgotten(s) == kills                 \* seeded bug: the timer only notes it

TimerKill(s) == kills \cup {<<DriverOf[s], run[s].job>>}

\* The timeout of a headless run, the idle timer of a remote one (which output may
\* arm again): both note it and send a kill that nobody waits for.
TimerFires(s) ==
    /\ At(s, "up") \/ (At(s, "launch") /\ DaemonFalters)
    /\ ~run[s].bound \/ DriverOf[s] \in RemoteDrivers
    /\ run' = [run EXCEPT ![s].bound = TRUE]
    /\ kills' = TimerKill(s)
    /\ UNCHANGED <<boardVars, loop, asker, container, started>>

\* docker kill takes a name; without a container of that name it does nothing.
KillLands(d, j) ==
    /\ <<d, j>> \in kills
    /\ kills' = kills \ {<<d, j>>}
    /\ container' = [container EXCEPT ![d][j] = 0]
    /\ run' = Ended(d, j, "nonzero")
    /\ UNCHANGED <<boardVars, loop, asker, started>>

\* A kill that fails is swallowed, and not repeated.
KillFails(d, j) ==
    /\ DaemonFalters
    /\ <<d, j>> \in kills
    /\ kills' = kills \ {<<d, j>>}
    /\ UNCHANGED <<boardVars, loop, asker, run, container, started>>

\* The remote session shows up in the container and is reported with the local one;
\* the end of the run waits for a report under way.
RemoteReported(s) ==
    /\ DriverOf[s] \in RemoteDrivers
    /\ run[s].pc \in {"up", "settle"}
    /\ run[s].hb = "beating"
    /\ <<run[s].tok, run[s].sess>> \in started[run[s].job]
    /\ Session(run[s].job, run[s].tok, run[s].sess, run[s].sess)
    /\ UNCHANGED driverVars

-----------------------------------------------------------------------------
(* The heartbeat of a run                                                  *)

Beating(s) == run[s].pc \in {"report", "launch", "up", "settle"} /\ run[s].hb = "beating"

Beat(s) ==
    /\ Beating(s)
    /\ Heartbeat(run[s].job, run[s].tok)
    /\ UNCHANGED driverVars

\* 409: the lease is gone, the heartbeat sends a kill and waits for it.
LeaseLost(s) ==
    /\ Beating(s)
    /\ ~Holds(run[s].job, run[s].tok)
    /\ run' = [run EXCEPT ![s].hb = "killing"]
    /\ UNCHANGED <<boardVars, loop, asker, container, kills, started>>

HeartbeatKills(s) ==
    LET d == DriverOf[s] j == run[s].job IN
    /\ run[s].hb = "killing"
    /\ container' = [container EXCEPT ![d][j] = 0]
    /\ run' = [Ended(d, j, "nonzero") EXCEPT ![s].hb = "ended"]
    /\ UNCHANGED <<boardVars, loop, asker, kills, started>>

HeartbeatKillFails(s) ==
    /\ DaemonFalters
    /\ run[s].hb = "killing"
    /\ run' = [run EXCEPT ![s].hb = "ended"]
    /\ UNCHANGED <<boardVars, loop, asker, container, kills, started>>

-----------------------------------------------------------------------------
(* The end of a run                                                        *)

CloseUnexited(s) == At(s, "up")   \* seeded bug: the run is over before its container

Exited(s) == At(s, "up") /\ run[s].exit # "none"

Closed(s) ==
    /\ Exited(s)
    /\ Goto(s, "settle")
    /\ UNCHANGED <<boardVars, loop, asker, container, kills, started>>

HeartbeatOverWhenLost(s) == run[s].hb = "ended"   \* seeded bug: the heartbeat is not woken

HeartbeatOver(s) == run[s].hb # "killing"

\* Nothing is reported for a lost lease or a container that never ran.
Settle(s) ==
    LET silent == run[s].hb = "ended" \/ run[s].exit = "error" IN
    /\ At(s, "settle")
    /\ HeartbeatOver(s)
    /\ IF silent THEN run' = [run EXCEPT ![s] = Idle]
       ELSE Goto(s, IF run[s].bound /\ DriverOf[s] \in RemoteDrivers
                    THEN "suspend" ELSE "complete")
    /\ UNCHANGED <<boardVars, loop, asker, container, kills, started>>

OutcomeByTime(r) == IF r.bound THEN "failed" ELSE "succeeded"  \* seeded bug: exit code forgotten

Outcome(r) == IF r.exit = "zero" /\ ~r.bound THEN "succeeded" ELSE "failed"

\* The last report reaches the board, whether or not its answer comes back.
Reported(s) ==
    LET j == run[s].job t == run[s].tok IN
    /\ \/ At(s, "suspend") /\ Suspend(j, t)
       \/ At(s, "complete") /\ Complete(j, t, Outcome(run[s]))
       \/ At(s, "refuse") /\ Complete(j, t, "failed")
    /\ run' = [run EXCEPT ![s] = Idle]
    /\ UNCHANGED <<loop, asker, container, kills, started>>

\* It never arrives, or is refused because the lease is gone: it is not repeated.
NotReported(s) ==
    /\ run[s].pc \in {"suspend", "complete", "refuse"}
    /\ run' = [run EXCEPT ![s] = Idle]
    /\ UNCHANGED <<boardVars, loop, asker, container, kills, started>>

-----------------------------------------------------------------------------
(* The system                                                              *)

BoardAlone(j) ==
    /\ \/ Create(j)
       \/ parks[j] <= MaxResumes /\ Resume(j)
       \/ LeaseExpires(j)
    /\ UNCHANGED driverVars

ClaimSteps(c) ==
    \/ \E d \in Drivers : Ask(d, c)
    \/ Select(c) \/ NothingToClaim(c) \/ ClaimFails(c)
    \/ Answer(c) \/ AnswerLost(c)

\* What a run does of its own accord, its timer, beats and remote watcher aside.
RunSteps(s) ==
    \/ SessionReported(s) \/ SessionNotReported(s)
    \/ ContainerUp(s) \/ LaunchRefused(s) \/ SpawnError(s) \/ OrphanUp(s) \/ OrphanFails(s)
    \/ HeartbeatKills(s) \/ HeartbeatKillFails(s) \/ Closed(s) \/ Settle(s)
    \/ Reported(s) \/ NotReported(s)

SystemNext ==
    \/ \E j \in Jobs : BoardAlone(j)
    \/ \E c \in Claimers : ClaimSteps(c)
    \/ \E d \in Drivers : StopClaiming(d) \/ Exit(d) \/ Restart(d)
    \/ \E d \in Drivers, j \in Jobs : ContainerExits(d, j) \/ KillLands(d, j) \/ KillFails(d, j)
    \/ \E s \in Slots :
           RunSteps(s) \/ Beat(s) \/ LeaseLost(s) \/ TimerFires(s) \/ RemoteReported(s)

SystemSpec == SystemInit /\ [][SystemNext]_systemVars

\* A lease nobody renews runs out; one that is renewed need not.
Abandoned(j) == \A s \in Slots : ~(Beating(s) /\ run[s].job = j /\ run[s].tok = token[j])

\* Processes run, timers fire, a driver that is down is started again.  Nothing is
\* assumed of people, of crashes, of the calls that get through, or of an agent: it
\* may never end by itself.  A driver that keeps crashing between two claims still
\* gets one through now and then, and so does a row, hence SF on the claims.
SystemFairness ==
    /\ \A s \in Slots : /\ WF_systemVars(RunSteps(s))
                         /\ WF_systemVars(TimerFires(s))
    /\ \A d \in Drivers : /\ WF_systemVars(Restart(d) \/ (Drained(d) /\ Exit(d)))
                           /\ SF_systemVars(\E c \in Claimers : Ask(d, c))
    /\ \A d \in Drivers, j \in Jobs : WF_systemVars(KillLands(d, j) \/ KillFails(d, j))
    /\ \A c \in Claimers : /\ SF_systemVars(Select(c) \/ NothingToClaim(c))
                            /\ \A j \in Jobs :
                                   SF_systemVars(lock[c] = j /\ (Answer(c) \/ AnswerLost(c)))
    /\ \A j \in Jobs :
           WF_systemVars(Abandoned(j) /\ LeaseExpires(j) /\ UNCHANGED driverVars)

FairSystem == SystemSpec /\ SystemFairness

-----------------------------------------------------------------------------
(* Properties                                                              *)

\* Whatever the drivers do, crashes and lost calls included, is something the board
\* alone allows for: all that JobBoard promises holds of the system.  What has to be
\* right for it is the session a run reports (loop.ts runJob).
DrivesTheBoard == Spec

\* A job is reported finished, or parked, only when the container of its last run is
\* gone: nothing of it writes to the checkout any more (loop.ts settle, docker.ts run).
SettledMeansStopped ==
    \A j \in Jobs, d \in Drivers :
        /\ status[j] \in {"succeeded", "failed", "standby"}
        /\ container[d][j] # 0
        => container[d][j] # issued[j]

\* A success is that of a run whose container came up (loop.ts, the exit code).
SucceededMeansRan ==
    \A j \in Jobs : status[j] = "succeeded" =>
        \E s \in 0 .. issued[j] : <<output[j], s>> \in started[j]

\* No two containers ever drive the same session: a transcript has one writer, though
\* containers outlive drivers and leases, and sessions outlive containers.
SessionHasOneWriter ==
    \A j \in Jobs : \A d, e \in Drivers : \A s \in 1 .. issued[j] :
        /\ <<container[d][j], s>> \in started[j]
        /\ <<container[e][j], s>> \in started[j]
        => d = e

\* The session the board shows for a running job is the one its container runs, so
\* that the link leads to the work and a parked session is resumed, never replaced
\* (loop.ts, the two refusals; job-store.ts claim).
BoardShowsTheSession ==
    \A j \in Jobs, d \in Drivers :
        /\ status[j] = "running" /\ session[j] # 0
        /\ container[d][j] = issued[j]
        => <<issued[j], session[j]>> \in started[j]

\* Every run gives its slot back, with a daemon whose kills succeed: neither a hung agent
\* nor a heartbeat that never ends eats a place of the driver's concurrency for good
\* (loop.ts settle and track).
SlotsComeBack == \A s \in Slots : run[s].pc # "free" ~> run[s].pc = "free"

\* A queued job is finished, given up or parked in the end, whatever crashes and
\* whatever is lost on the way, unless jobs older than it are resumed without end.
EveryJobEnds ==
    \A j \in Jobs : \/ OvertakenForEver(j)
                    \/ status[j] = "queued" ~> status[j] \in Settled \cup {"standby"}

\* docs/jobs.md:60 "The container is docker killed and the job reported failed": a
\* headless run that timed out gives its slot back.  It keeps to that only under a daemon that does
\* what it is told: the timer kills once.
TimeoutEnds == \A s \in Slots : run[s].bound ~> run[s].pc = "free"

\* docs/jobs.md:31 "A 409 from heartbeat means the container must be killed": once
\* the kill is done, the run's container is gone and none comes up.  The code does not keep to it:
\* runJob starts the container of a run that was fenced off before it existed.
FencedRunDies ==
    \A s \in Slots : run[s].hb = "ended" /\ At(s, "up") => run[s].exit # "none"

\* loop.ts:50 "the job belongs to another worker now, so this one is killed": the kill
\* of a run that lost its lease ends no container but its own.  The code does not keep to it: a
\* container has the name of the job, and so has that of the run that replaced this one.
FenceKillsItsOwn ==
    [][\A s \in Slots :
          HeartbeatKills(s) =>
              container[DriverOf[s]][run[s].job] \in {0, run[s].tok}]_systemVars

\* docs/jobs.md:99 "A run that never started is not a failed job ... the driver logs
\* and says nothing to the board".  The code does not keep to it: docker run that the daemon refuses
\* has an exit code, as an agent that failed has.
NeverStartedNeverFailed ==
    \A j \in Jobs : status[j] = "failed" =>
        \E s \in 0 .. issued[j] : <<output[j], s>> \in started[j]

\* docs/jobs.md:217 "So the session outlives its container, and a new one resumes it":
\* a job that was parked after its container came up has a session to be resumed with,
\* or the command is delivered to a second session.  The code does not keep to it: the report of the
\* session may be lost, and is not repeated.
ParkedKeepsSession ==
    \A j \in Jobs : status[j] = "standby" /\ (\E s \in 0 .. issued[j] : <<issued[j], s>> \in started[j])
                   => session[j] # 0
=============================================================================
