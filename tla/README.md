# A verification of factory-ai

factory-ai is a dashboard for an engineering organisation. Its server collects pull requests from
GitHub and telemetry from coding agents, keeps a board of agent jobs and a workspace of checkouts
per member; drivers claim jobs from the board and run them in containers; a web application shows
all of it. This directory holds TLA+ models of the parts of it whose difficulty is in their
interleavings and failures, the TLC runs that check them, and proofs of the results that matter
most.

Paths below are those of the repository, without the leading `src/` of this tree.

## 1. Inventory

### Components, their state, and what they call

| component | state | operations | talks to |
|---|---|---|---|
| job board (`server/src/db/job-store.ts`, `routes/jobs.ts`) | table `job`: status, attempts, lease token and expiry, session, remote session, output | create, claim (two statements), heartbeat, session, suspend, resume, complete | drivers over HTTP, people through the dashboard |
| driver loop (`driver/src/loop.ts`, `index.ts`) | set of active runs; per run `finished`, `lost`, a wake-up promise | claim loop, run of a job, heartbeat, remote watcher, drain on a signal | board client, docker runner |
| docker runner (`driver/src/docker.ts`) | one child process and one timer per run; the daemon's containers, by name | run, kill, read the remote session | docker daemon |
| board client (`driver/src/board.ts`) | none | one POST per operation; 409 is a verdict, anything else not 2xx throws | job board |
| member repositories (`server/src/db/user-repo-store.ts`, `routes/workspace.ts`) | table `user_repo`: status, selection, order | select, claimPending, markReady, markFailed, requeueStranded, list, orphaned | dashboard, clone queue |
| clone queue (`server/src/workspace/queue.ts`, `reconcile.ts`) | `inFlight`, the pass under way, the timer; the directories `<name>` and `<name>.tmp-<pid>` | start (recover, sweep, poll), kick, pass, clone, stop | member repositories, tokens, git, file system |
| checkout facts (`workspace/facts.ts`) | a cache per checkout, refreshes in flight | get, background refresh | git, file system |
| workspace routes (`routes/workspace.ts`, `routes/repos.ts`) | none | three reads in one answer, the PUTs of a selection and of the executors, the list for the picker | member repositories, executors, facts, repository source |
| provisioning (`workspace/provision.ts`) | one directory per member | ensureUserWorkspace | file system |
| member executors (`db/user-executor-store.ts`) | table `user_executor` | replace, list | dashboard |
| stats service (`stats-service.ts`, `cache.ts`) | cached snapshots per range, the walk in flight, per-repository watermarks | prime, ensureFresh, refresh, stats, incremental sync | GitHub client, pull request store, telemetry |
| pull request store (`db/pr-store.ts`) | tables of pull requests, commits, reviews, branch history, watermarks | upserts, reads | stats service |
| repository source (`github/repo-source.ts`) | cached installation list, last error, request in flight | list, lastError | GitHub, pull request store |
| installation tokens (`github/app-token.ts`) | cached token, request in flight | get | GitHub |
| GitHub client (`github/client.ts`, `queries.ts`, `map.ts`) | none | paged GraphQL walk | GitHub |
| metrics (`core/src/metrics.ts`, `telemetry.ts`, `range.ts`) | none: pure functions | derive, compute, attribute, the filters of a range | stats service |
| accounts (`auth/store.ts`, `plugin.ts`, `routes/auth.ts`, `admin/invite.ts`) | users, memberships, invitations, sessions, worker tokens | sign in, sign out, authenticate, invite, remove | GitHub OAuth, operators |
| telemetry ingest (`routes/ingest.ts`, `telemetry/otlp.ts`, `store.ts`) | tables `metric_point`, `session_branch`, `session_pr` | insert an export, record a branch | agents' exporters, the hook of the plugin |
| transcript backfill (`backfill/*.ts`) | none | read transcripts, insert what they say | the same tables |
| telemetry queries (`migrations/002_views.repeatable.sql`, `telemetry/postgres-client.ts`) | views | choose a source per session, total it, divide it among its branches | stats service |
| migrations (`db/migrate.ts`) | ledger of applied files | migrate with retries, adopt, seed | postgres; every process runs it |
| dashboard hooks (`web/src/api/*.ts`) | last answer, error, chains of requests, timer | poll, refresh, save | server |
| dashboard pages (`web/src/components`, `web/src/pages`) | the range, the picker, the dialogs | select, open, save | hooks |

The remaining parts (seed data, installation tokens, provisioning, images, types) are listed in
`PROJECT.json` with the reason each is left out.

### What is hard

* **Leases without a coordinator.** A driver that dies cannot say so. A job is claimed under a
  lease with an expiry and a fencing token; a stalled driver, a lost answer or a late report must
  never disturb the run that replaced it.
* **A claim is two statements**, and the second selects a row and locks it before it writes it.
* **Containers outlive everything**: the process that started them, its lease, its job's attempt.
  They are named after the job, not the attempt.
* **Parking.** A Remote Control run that falls silent is parked, its attempt handed back and its
  session kept; another driver may resume it, and it may be one that cannot.
* **Calls to the board** may be lost, or executed with their answer lost; none but heartbeats is
  repeated.
* **A queue over table rows**, whose in-memory half (passes, clones in flight) and whose directories
  are changed between the statements that change the rows, and which must recover after a crash.
* **Incremental walks** of lists that change while their pages are read, whose watermark decides what
  the next walk may skip, and whose writes are many statements of which any may fail.
* **Work measured twice**: an agent's exporter delivers at least once, its hook at most once, and a
  backfill reads the same work again from the transcripts, whenever somebody runs it.
* **One unit of work, many pull requests**: branches are used again, and the answer to a range is
  computed from what the range leaves of both sides of the join.
* **Logins change hands** at GitHub while a sign-in of several statements is under way and an
  operator removes and invites.
* **Several processes migrate** one database, with nothing that locks it, and may die between the
  body of a file and the row that records it.
* **Polling hooks** whose answers may overtake each other, and a page that saves while it polls.

### What makes the components correct

Board: one live owner per job, monotone fencing, the result is that of the last claim, parking is
free, a queued job is claimable and served, settled is final. Drivers: they use the board only as
it allows; what is settled has stopped; a session has one writer; slots come back; every job ends.
Clone queue: bounded concurrency, ready means on disk and whole, no checkout cloned twice at once,
a row that says cloning is being cloned, a selection is cloned in the end. Statistics: no change of
a pull request is left behind by an incremental walk, the dashboard never goes back, full walks keep
to their schedule, a revert rate is over exactly the commits of its range, visitors are served.
Telemetry: a unit of work is counted once, however it arrived, and credited to at most one branch.
Metrics: tables agree with one another, a range never moves work between pull requests, what went
into a merged pull request stays there. Accounts: memberships stay with their accounts, who is
expected gets in, who is removed is out, and a deployment can be used. Migrations: a process that is
ready finds the whole schema. Dashboard: a hook shows the answer to its last question, and the page
of a workspace ends up showing what the rows say.

## 2. Modules

| module | models | state and actions |
|---|---|---|
| `JobLifecycle` | the promise of the board | a job's phase, its grants; Submit, Grant, Park, Unpark, Finish, GiveUp |
| `JobBoard` | `job-store.ts` | one variable per column that matters; `Create`, `ClaimRetire`, `ClaimSelect`, `ClaimCommit`, `Heartbeat`, `Session`, `Suspend`, `Resume`, `Complete`, `LeaseExpires`, `ClaimAbort` |
| `JobBoardRefinement` | `JobBoard` implements `JobLifecycle` | the refinement mapping |
| `JobDriver` | `loop.ts`, `docker.ts`, `board.ts`, composed with `JobBoard` | claim loops, runs, containers per daemon, kills under way |
| `JobDriver_proofs` | | the board's inductive invariant, three invariants of the fleet, theorems of both |
| `CloneQueue` | `queue.ts`, `reconcile.ts`, `user-repo-store.ts`, the PUT of `routes/workspace.ts` | rows, clones in flight, staging and final directories |
| `CloneQueue_proofs` | | three invariants of the queue, theorems |
| `PrSync` | one sync: `produce` of `stats-service.ts`, `fetchPullRequests` of `github/client.ts`, `pr-store.ts`, the slot of `cache.ts` | the provider's pull requests, the store's, the watermarks, the walk, what is shown |
| `StatsService` | what starts syncs: `prime`, `ensureFresh`, `refresh`; extends `PrSync` | the priming, the entry's age, `fetchState`, the cooldown |
| `StatsService_proofs` | | of both: three invariants of a sync and one of what is shown, theorems |
| `BranchHistory` | `produceHistory`, `fetchBranchHistories`, `saveBranchHistory`, `revertForRange` | branches, tables of commits and of coverage, the scan, the snapshot |
| `BranchHistory_proofs` | | invariants of the table of commits, of a scan and of the counts, theorems |
| `Telemetry` | the exporter, `otlp.ts`, `ingest.ts`, `store.ts`, the plugin's hook, `transcripts.ts`, the views | transcripts, exports and reports under way, three tables, the import |
| `Telemetry_proofs` | | invariant of the rows, totals, imports and spans, theorems |
| `Attribution` | `core/telemetry.ts`, `core/range.ts`, and the world their inputs come from | pull requests, work, links; the answer is a function of them |
| `PrMetrics` | `core/metrics.ts` | pure: `derive` and `compute` |
| `Answers` | an answer of `StatsService.current` | composes `Attribution` and `PrMetrics` |
| `Answers_proofs` | | invariants of the pull requests and of the work, sums as sizes, theorems of both |
| `Migrations` | `migrate.ts` | the schema, the ledger, the views, where each process is |
| `Accounts` | `auth/store.ts`, `routes/auth.ts`, `admin/invite.ts`, the seeds of `migrate.ts`; extends `Migrations` | memberships, sessions, callbacks under way, GitHub's logins |
| `Accounts_proofs` | | invariants of the migration, of the members and of a sign-in, theorems |
| `LoginGate` | `LoginGate.tsx`, `useSession.ts` | the session, the gate and its check |
| `StatsPage` | `useStats.ts`, the range of `AppShell.tsx`; extends `LoginGate` | chains of requests, the timer, the figures |
| `WorkspaceServer` | what the routes of a workspace read and write, `repo-source.ts`, `facts.ts`; extends `LoginGate` | rows, clones, facts, the list of repositories |
| `WorkspacePage` | `useWorkspace.ts`, `useRepos.ts`, the picker, the executor dialog; extends `WorkspaceServer` | the page, the chain of polls, the picker, the save under way |
| `Tab` | one tab: both pages behind one gate | composes `StatsPage` and `WorkspacePage` |
| `Tab_proofs` | | invariant of the figures, theorem |
| `MC...` | instances for TLC | values of the constants, symmetry |

### JobBoard

The table `job` is a function per column. The abstractions:

* A lease token is the number of the claim that issued it: `gen_random_uuid` never repeats itself.
  A session is named by the claim whose run minted it, an output by the claim whose run reported
  it; 0 is NULL. So "the token changed", "another attempt's session" and "the output of a
  superseded run" can be said, and nothing else about these values can.
* Time is the one bit `live`: `lease_expires_at > now()`. `LeaseExpires` may happen at any moment,
  however much the worker beats, which covers every lease length and every pause.
* Jobs are numbered in the order `(created_at, id)` puts them, and may be inserted in any order:
  two inserts may commit the other way round.
* Each statement is atomic, as it is under READ COMMITTED for a single row; the exceptions are
  modelled. The second statement of a claim is split at its row lock (`ClaimSelect`,
  `ClaimCommit`). A worker's update of a locked row waits and then no longer matches (`MayWrite`);
  a select skips rows that workers hold locked at that instant (the parameter `busy`).
* `ClaimAbort` stands for a connection that dies between or inside the two statements.
* `heartbeat`, `session`, `suspend` and `complete` have the guard of the code, status and token, and
  not the lease: an expired lease nobody has claimed is still good.
* `parks` and `issued` are history and numbering. A job may be resumed without end, as in the code.
  The instance for TLC stays finite because a resume past its `MaxResumes` forgets one of the rounds a
  job has been through (`ResumeRenumbered` in `MCJobBoard`): all tokens of a parked job are stale, and
  the properties only ever compare them. The fleet, whose slots hold tokens, bounds its resumes.

`Next` lets workers call with *any* token ever issued, in any order, any number of times: it is the
most hostile environment the routes allow.

### JobDriver

`JobDriver` extends `JobBoard` and replaces that environment by the drivers. A *slot* is one of a
driver's `concurrency` places; `run[s]` is the closure of `runJob`: where it stands (`pc`), the
claim it works for, its session, its heartbeat (`beating`, then `killing` when a 409 arrived, then
`ended`), the exit code once docker run knows it, and whether its timer fired. `container[d][j]` is
the attempt whose container has job j's name on d's daemon, so that the names clash as they do in
docker. `kills` are the `void kill(job)` calls of the timers, which run on their own.

What may go wrong is an action: an answer lost after its call was executed (`AnswerLost`,
`NotReported` after `Reported` is the same state, since the driver drops either outcome), a call
that never arrives, a daemon that refuses (`LaunchRefused`), a docker that cannot be spawned
(`SpawnError`), a kill that fails (`KillFails`, `HeartbeatKillFails`), a driver that dies at any
point (`Exit`) and leaves its containers behind. One that was being launched then may still come up,
at any time after (`OrphanUp`).

`DaemonFalters`, `Stoppable`, `RemoteDrivers`, `OpencodeDrivers` and `Unattributed` select the
configuration. The text of outputs, docker's arguments, the polling periods and the forty look-ups
of the remote watcher are abstracted; the remote id is named by the session it belongs to.

### CloneQueue

A row is a member and a repository; `DirOf` names its directory, and two rows may share one. The
server is one process. `staging[d]` and `dest[d]` are the trees at `<name>.tmp-<pid>` and `<name>`;
a tree knows which clone writes it, which row it is of, and whether it is whole. In the image the
server is the container's first process and its pid never changes, so that the staging directory of
a checkout has one name for ever; git dies with the container.

`room` is the pass under way, the number of rows it asked for when it began: `pass` reads
`inFlight` before it awaits the claim. `RunPass` joins a pass that is under way. The claim is
committed (`ClaimPending`) before its answer starts the clones (`ClaimAnswered`): in between, `claimed`
has rows that say cloning and are in nobody's hands, and PUTs go on. The end of a clone
(`Over`) frees the slot and runs a pass in one step, as the `finally` does. `Prepare` is the
synchronous part of `cloneRepo` up to the start of git; `GitBegins` and `GitEnds` are git's, and
`Rename` follows when node notices. `RequeueStranded` and `Sweep` are the two halves of `start`,
between which other callbacks run.

A PUT may name any row at any moment that the server is up, as the route allows: a row that is being
cloned, and one that a start is about to requeue. Either queues a row again in the middle of its clone,
a second clone of it is then started, and what the first one does is no longer its own: see "What the
code does not keep" below. `crossed` remembers the rows to which that has happened, and the properties
of a clone except those and no others; a row that is selected, deselected or selected again at any other
moment, and the rows beside it, are not excepted. `MaxFaults` bounds the statements of the queue that
fail, each of them executed or not; `lost` has the rows that a failed claim or `markFailed` has left as
cloning, until a PUT queues them again or a start does.

### PrSync and StatsService

Time is counted in changes of pull requests: `clock` is the number of the last change, every
timestamp is the number of a change, and a copy of a pull request is its last change (`ver`), its
`updatedAt` (`at`) and whether it is open. The provider does not move `updatedAt` for every change
(a resolved thread, a removed label): `ChangedSilently`. The two periods of the code are then two
pieces of state: `floor` is the first change of the last 14 days, `due[r]` says that a repository's
last full walk is 24 hours old. Both pass when they like (`Ages`, `DayPasses`), except that 14 days
are longer than a day and a sync (`fullFrom`, `sync.from`).

`sync` is the sync under way, with the program counter of `produce`: list the repositories, read
the store, walk, write, load, deal with the history, publish. A walk reads one page at a time
(`ReadPage`), so that pull requests open, change and move in the provider's order between pages; the
cursor is the key of the last one read, as the provider's is. `SavePullRequest` is one transaction,
`RecordSync` one upsert: a write may stop between any two of them (`WriteFails`), and `Crash` may
come anywhere. `mark` is `watermark_at`, 0 for null; `poor` says that the rate limit stored with a
repository cannot pay for a full walk.

`StatsService` adds prime, whose reads of the store are one step, its seed another; whether the
entry is older than its TTL; what a dashboard is told; and the cooldown after a failure. Boot's
`ensureFresh` is not an action: it follows `prime()` in the same tick, finds it under way and
returns. The telemetry slot is a second cache of the same kind and has no part in this.

Left out, and what that assumes: a repository never loses its grant; the provider answers with what
it has at that moment (the five minutes of overlap allow for an answer that lags behind; without
such lag an overlap of 0 is the harder case, and the one that is run); `SCHEMA_EPOCH` is constant;
reviews, threads, commits and labels are part of a pull request's copy.

### BranchHistory

A commit is the position of its date; the order in which commits land on a branch is another one, and
any order will do: a merge brings in commits that are dated days behind. `Overlap` is the hour a scan
goes back behind the newest commit it has. Reverts are counted along with the commits. A scan may begin
with a cache that was not primed (`Restart(FALSE)`), with a first merge that is not the store's because
the pull requests could not be read back (`BeginScan`), or not at all (`NoMerge`).

Three variables are history. `hist[r].seen` is the branch as it was when row `r` was written. `late` has
the commits that landed dated further behind their branch than the overlap, and `adrift` the repositories
of which a scan began further on than what is covered and what is stored call for. An incremental scan
cannot know of either, and the code counts on neither to happen (see "What the code does not keep"). The
properties except exactly those commits and those repositories: a commit that lands late takes no other
one with it, and whatever else is answered is answered exactly.

### Telemetry

One unit of work is done per tick, of one field, so that "counted once" is an equation between
cardinalities and sums. A session's exporter is off, sends increments or sends running totals;
`Collect` puts an export in the `outbox`, where it stays until it is acknowledged: `Ingest` may write
the rows and lose its answer, and then the same body comes again. A report of the hook is sent once
and may be lost or come late (`hooks`). `backfillTranscripts` reads what is on disk at that moment,
at any time, as often as somebody likes. What it has read is written in chunks of `CHUNK` units of work,
each session's in the order of its file, then span by span in the order in which sessions first held
them, then the links; `ImportDies` may come between any two of these statements. A record without work
(`Ask`) is in the transcript too, and makes or widens a span as any other does. A span without a branch
(a detached HEAD) ends an import, as the primary key does in the code.

The tables have the conflicts of the migrations (`DedupKey`, the widening `Upsert`), and the views of
`002_views.repeatable.sql` are operators: `session_source`, `metric_point_used`,
`session_branch_slice`, `session_field_total`, `branch_field_total`, and what `fetchRollups` makes of
them. An export carries a metric without a field, one that is refused and one of a shape that cannot
be read, so that the flattening is seen to leave them out.

### Attribution and PrMetrics

`core` is pure, so the state of `Attribution` is the world: pull requests open, by hand or by a
session that then names them, merge and close; sessions work. A list that was filtered is the list at
the positions that are left. `attribute`, `filterPrs` and `filterTelemetryInput` are translated as they are, and `current` composes them as
`StatsService.current` does. `Everything` stands for what `fetchRollups` returns, which `Telemetry` has
in full: a place is held from its first to its last unit of work. A session may work on branches of one
name in two repositories, and both splits are then given the work of both, because the split of a
session goes by branch name alone (`OnBranch`). The properties quantify over every range that could be
asked for at that moment.

`PrMetrics` has `derive` and every table of `compute`. A list is again a function of the positions that
are left, and the tables are functions of their keys. A percentile is in hundredths, and the values it
lies between are given by how many are no greater (`sorted`); a ratio is the pair of what it divides, a
week is `t \div WeekDays`; names are `Bots` or not. Its properties range over all
histories of one pull request and all lists, in one order each, of up to three of seven that differ in author, state,
branch, week, reviews and threads. They depend on no state and are evaluated once, in the initial
states of `MCAnswers`; `Answers` composes the two as an answer to the dashboard does.

That no more threads are resolved than there are is said only of pull requests whose stored threads
the provider still counts (`CountsItsThreads`). `metrics.invariants.test.ts:46` expects every ratio to be
within [0,1], which needs as much: `thread_count` is written over with every fetch, and the rows of threads
that were deleted upstream stay as long as the list that comes is a truncated one (`writeChildren`).

### Migrations and Accounts

A process at `migrate()` has its attempt and the files it has left. `ApplyBody` and `Record` are the
two statements of a file; nothing keeps two processes from being between them. A file in `Rekeys`
fails when it is run on a schema that has it (005_organizations.sql adds primary keys under
new names, which it does not drop first); the others may be run again, as they say of themselves. `Fault` is a statement that
fails, `Stop` a process that dies anywhere. `parked` is the one thing in the data that the schema
depends on: rows in the `__unclaimed__` organization, which `adoptOrg` moves.

`Accounts` continues where `migrate()` plants the first members, and lets people sign in while an
operator invites and removes. Each statement of the callback is a step: `Callback` (GitHub has said
who it is), `Claim`, `Lookup`, `Join` with `Relookup`, `createSession`; so are the two of a removal.
`github` is who is called what at GitHub, and changes under the way (`Rename`). `Unclaimed` is the
null `user_id` of an invitation. A start of the server has a mode and may or may not be told of a first
admin (`settings`), and the next one may have others. `due`, `ended` and `emptied` are what the
properties remember. A session is the account it belongs to; its expiry and a sign-out are the same step.

### Tab

`LoginGate` has the cookie, whether pages are rendered, and the gate's question after a 401.
`StatsPage` is `useStats`: the chain of requests of its effect, which a change of the range aborts,
and one per press of Refresh, which it does not; `timer` is the one timeout the hook remembers.
`WorkspacePage` is `useWorkspace`, with the chain of polls that stops when every clone has settled,
the picker with its own list, and both saves, whose route checks, asks GitHub and writes in that
order (`Checked`, `SelectionWritten`, `Saved`). The three statements of one poll are three steps,
because nothing ties them together. `WorkspaceServer` is what stands behind them: the rows, the clone
queue as no more than what happens to a row, the facts and the list of repositories.

`Tab` composes the two behind one gate. They share nothing else, so a behaviour follows one of them
(`hook`), and the other one is the 401 it may be answered. Pages after a 401 are not followed: the
gate takes them away.

## 3. Runs

All runs are expected to pass.

| run | instance | what it shows |
|---|---|---|
| `board` | 2 jobs, 2 claims at a time, 2 attempts, any number of resumes of which 1 is told apart, fair | the safety of the table, that it implements `JobLifecycle`, and that nothing starves a queued job but older ones that are resumed for ever |
| `fleet_remote` | 2 Remote Control drivers with a slot each, 1 job | a job that changes machines, is parked and resumed; two containers of it may be up |
| `fleet_mixed` | a Remote Control driver and an opencode driver, 1 job | the session shown is the one that runs, what succeeded has run to its end |
| `fleet_live` | 1 headless driver with 2 slots, 1 job, fair | a job that returns to its machine meets its own container and is stopped all the same; slots come back, jobs end |
| `clones` | 3 rows of 2 members, 2 of one name and one whose directory holds something else; 2 clones at once, 2 PUTs at any moment, 1 crash, 1 failed statement, fair | the safety of the queue and of the directories; rows that say cloning are being cloned; selections are cloned |
| `sync` | 2 repositories, 3 pull requests, pages of one, 4 changes of which 2 open what is there at first, 1 failure or crash | nothing is left behind by the watermarks, the dashboard does not go back, full walks keep to their schedule |
| `stats` | 1 repository that is granted late, 1 pull request, 2 changes, 1 failure or crash, budgets that run short, fair | what is shown is stored, whatever primes or syncs first; every change arrives; visitors are served |
| `history` | 2 branches, 3 commits on one and 1 on the other that land in any order, an overlap of 1, 1 forced push, 1 failure or restart | a range is answered exactly, but for late commits and scans that began too far on, or not at all; what is covered is stored |
| `telemetry` | 1 session, 2 branches and a detached HEAD, 3 ticks, at one of which it opens a pull request or does no work, chunks of 2, 1 report under way, 1 failure | work is counted once and credited to at most one branch |
| `answers` | 2 sessions, 2 branches in one of 2 repositories and one of the same name in the other, 2 pull requests, 4 ticks, weeks of 2; and 128 histories of one pull request and 120 lists of them | the rows, the weeks and the groups add up, a range moves no work, a merged pull request keeps its own; the tables of `compute` agree |
| `accounts` | 3 files of which one cannot be run twice, 2 attempts, 2 people, 3 logins, 2 callbacks, 2 cookies, 3 runs and outages, 4 renames and sign-ins | a process that is ready finds the whole schema; memberships stay, who is expected gets in, the cookies of who is removed are out; a deployment that was told of a first admin has somebody |
| `tab` | 2 ranges, 2 changes between them, 1 press; 2 repositories of which the installation may lose one, 1 executor, 1 save, 1 thing that goes wrong, fair | the last answer shown is to the last question; the page catches up with the rows |

`CHECK_DEADLOCK FALSE` is where the system, or what the bounds leave of it, may stop: pull requests
stop changing, people stop signing in, pages stop asking.

Why the bounds are enough. Fencing needs two holders of one job: one old and one new token, hence
two attempts and one resume; a third token is to the second what the second is to the first, which is
also why a resume beyond that may forget a round. The order of claims needs two jobs, the row lock two
claims. In the fleet a job moves between two
places, which are two drivers or two slots of one; a third place adds no new relation, since each
run only ever touches its own job and its own daemon. Two attempts and one resume give three claims
of a job, so that a parked job can be lost as well. A clone has one competitor for its place or its
directory: two places, a row of another member, and two rows that share a name have both. Two PUTs
select and replace, or queue a row again in the middle of its clone. A sync can lose a change
only between a walk and the next one: it takes a pull request that is passed over and another one
that moves the watermark beyond it, two pages to come between, and one thing that goes wrong;
`MCPrSync` was also run with 5 changes and nothing that fails, and with one repository of two pull
requests and a third change. A scan goes on from the newest
commit it has: one commit before the overlap, one inside it and one beyond are three on one branch, and
a second repository only matters because the totals are added up. One failure is enough for each way a
scan begins too far on.

No two sessions of `Telemetry` have a row in common, so one is enough; three units of work make an
increment that was sent, one that was not, and one that only the transcript has, on two branches one
of which is left and come back to. In `Attribution` two pull requests compete for a branch, and two
sessions for a pull request. Migrations interfere in pairs, a process with itself after its death
included; three files are one before the one that cannot be repeated, that one, and one after it.
Two callbacks of two people compete for a login that changes hands; the third login is the one that
somebody moves to. In the tab, an answer is overtaken by one other; one save falls between a poll
and the next one. What the proofs cover holds for every value.

### What the code does not keep

Modelling met statements of the repository's own documents and comments that the code does not
keep to. The modules state each as a property, which no run of the project checks; it is found by
adding it to the configuration named here. The traces are short, and each is a behaviour of the code.

Board and fleet:

* `QueuedIsServed` excepts jobs for which an older one comes back for ever (`OvertakenForEver`). Without
  that it fails in `MCJobBoard`: claims go by `created_at` (job-store.ts:244), which a resume does not
  touch (:325-336), so that older jobs that are parked and resumed again and again keep a newer one
  waiting for as long as people go on. Nothing in the documents promises otherwise.
* `FencedRunDies` (docs/jobs.md:31, a 409 means the container must be killed) fails in
  `MCJobDriverMixed`: a 409 that comes before the container exists kills nothing, and `runJob`
  (loop.ts:164) starts the container all the same.
* `FenceKillsItsOwn` (loop.ts:50, "this one is killed") fails in `MCJobDriverLive`: the kill goes by
  the job's name and ends its successor's container on the same daemon.
* `NeverStartedNeverFailed` (docs/jobs.md:99, a run that never started is not a failed job) fails in
  `MCJobDriverMixed`: docker run that the daemon refuses closes with an exit code and is reported
  failed.
* `ParkedKeepsSession` (docs/jobs.md:217, the session outlives its container) fails in
  `MCJobDriverMixed`: a lost session report parks the job without a session; the resume delivers the
  command again.
* `TimeoutEnds` (docs/jobs.md:60, the container is killed) fails in `MCJobDriverLive` with
  `DaemonFalters = TRUE`: one failed kill and the run goes on for ever, its lease renewed.

Clone queue:

* `OneClonePerCheckout`, `CheckoutIsWhole` and `ReadyStays` without their condition on `crossed`
  (routes/workspace.ts:18, replaying changes nothing) fail in `MCCloneQueue`: a PUT requeues a row that is
  being cloned, and a second clone shares its staging directory; the first may then rename the half-made
  tree of the second into place, and the row of a checkout that is there may say failed.
* `StrandedIsNotCloned` (user-repo-store.ts:51, at boot there are none) fails in `MCCloneQueue`: a PUT's
  kick starts a clone before the start requeues. That puts a row into `crossed` as well.
* `IndexNeverRefuses` (routes/workspace.ts:221, refused by name) fails in `MCCloneQueue`: the index
  also covers deselected rows, and the answer is a 503.
* `OrphanedIsOnDisk` (docs/workspace.md:169, still on disk) fails in `MCCloneQueue`: rows deselected
  before they were cloned are listed.
* `CloningHasRunner` without its condition on `lost` (011_user_workspace.sql:26, owned by a live
  runner) fails in `MCCloneQueue`: the answer to a claim is lost, and nothing clones the rows that
  say cloning until the next start. A start whose `requeueStranded` fails rejects, and nothing polls.

Statistics:

* `AllTimeIsWhole` (stats-service.ts:87, the all-time figure) fails in `MCBranchHistory`: from the
  second scan on, the count of a branch is that of the last hour's overlap (pr-store.ts:389); every
  range is refused, because the stored commits disagree with it.
* `CoveredIsStored` and `RangeIsExact` without their condition on `late` (stats-service.ts:514, an hour
  is how far back a resume must go) fail in `MCBranchHistory`: the commits of a merge keep the dates they
  were made at, days before it, and a scan that goes on an hour behind the newest commit (:517) never
  fetches them; the range is answered, because the count is also the scan's.
* `CoveredIsStored` without its condition on `adrift` (pr-store.ts:383, a later scan "has not lost the
  older commits") fails in `MCBranchHistory`: one outage fails both the write of a scan
  (stats-service.ts:540) and the read that follows it (:554), so the scan itself is shown; the next one
  goes on from its newest commit (:517), what lies before is in no table for good, and the coverage says
  that it is. That outage is two faults (`MaxFaults = 2`); one is enough where a server starts without
  having primed its cache, or cannot read its pull requests back (:446-449, :490), and begins at another
  first merge than the one the table begins at.
* `CachedKeepsRendering` (stats-service.ts:57, what was cached keeps rendering) fails in `MCPrSync`:
  a set that cannot be read back is replaced by what the walk returned, for the whole dashboard.
* `FullWalksAreGated` (stats-service.ts:631, a 24h schedule) fails in `MCPrSync`: a repository without
  pull requests never gets a watermark, and every sync walks all repositories in full.
* `RejectedIsReported` (stats-service.ts:644, reported through fetchState) fails in `MCStatsService`:
  without a list of repositories `produce` throws before its `try`; `fetchState` says loading for
  good, and no cooldown holds the next visitor's attempt back.

Telemetry:

* `SplitsAddUp` (002_views.repeatable.sql:53, "a genuine partition") fails in `MCTelemetry` with a
  session that holds branches of one name in two repositories: `branch_field_total` is by branch name
  alone, and both slices are given the sum of both. `Attribution` has such sessions, and says how far
  `AddsUp` goes with them: the weeks and the groups add up, the rows may be credited with more than there
  is (`NamesAreDistinct`).
* `OwnerWasOpen` (core/telemetry.ts:219, "still open when the work happened") fails in `MCAnswers`: a
  pull request that was closed without a merge has no `mergedAt`, and takes the branch's work as if it
  were open (telemetry.ts:228).

Accounts and migrations:

* "every statement is `if not exists` or `create or replace`" (migrate.ts:225) and "a crash between the
  two costs one harmless re-run" (migrate.ts:257) are not so for 005_organizations.sql, whose keys get
  names that it does not drop first: a process that dies between its body and its record leaves a
  database at which every later boot fails at that file. `ReadyMeansMigrated` holds, since such a boot
  never gets ready; that a boot gets ready is not claimed.
* `bootstrapAdmin` runs whenever there is no real member: a sole member who was removed is invited
  again by the next boot, if theirs is the login of `BOOTSTRAP_ADMIN`.
* A deployment in github mode without `AUTH_BOOTSTRAP_ADMIN` boots with an empty roster (migrate.ts:273,
  config.ts:462): whoever is in the GitHub organisation may still join by themselves where that is
  configured (docs/auth.md:83-85), and otherwise nobody gets in until an operator invites somebody.
  `SomebodyCanSignIn` says nothing of it, nor of one whose last login was removed.
* `removeMember` goes by the login the row was made with: after a rename the new one is "missing", and
  the old one is not what the operator sees at GitHub.
* A command that dies between the two statements of a removal leaves the sessions of the account, and
  they answer again once it is invited again: `RemovalEndsSessions` is of removals that were done. So
  does a session that a callback makes just after them.

Dashboard:

* `NothingDroppedUnseen` (RepoPickerDialog.tsx:98-103) fails in `MCTab`: a page whose first poll failed,
  or one between a save and the next poll, opens its picker without the selection there is, and what
  it saves replaces it.
* `AddingKeepsTheOthers` (ExecutorDialog.tsx:70, "Add executor") fails in `MCTab`: what is added is
  sent as the whole list.
* `FactsAreShown` (useWorkspace.ts:105) fails in `MCTab`: the facts of the checkout that settles last
  are measured from the last poll on, and shown by none.
* A change of the range does not abort the chain of a press of Refresh (useStats.ts:138-147), so its
  answer may be shown under the new range: `ShownIsSelected` excuses it by `overtaken`. One poll of
  the workspace that fails ends the chain (`PageCatchesUp` excuses it by `workspaceError`).

### Fairness

* `board`: drivers poll for as long as they run, so a claim is begun again and again (WF on its
  first statement). A board that dies in the middle of *some* claims must not make the property
  fail, so its second statement has SF: it is taken if it is reached again and again. Nothing is
  assumed of the people who resume older jobs.
* `fleet_live`: processes run (WF on the steps of each run), timers fire, a driver that is down is
  started again, a lease nobody renews runs out; SF on the claim, which a crash of the driver keeps
  interrupting. Nothing is assumed of people (nobody need resume a parked job), of crashes, of the
  calls that get through, or of the agent: it need never end by itself, which is why the timer
  matters. The daemon does what it is told; with one that does not, `TimeoutEnds` shows what happens.
* `stats`: dashboards poll, a sync or a priming that has begun goes on, a list and an entry expire,
  days pass, a cooldown ends (WF each); SF on a walk that leaves enough of the budget, which the
  provider renews every hour. Nobody need press the button, and nothing is assumed of failures but
  their number.
* `clones`: the server runs and is started again, tokens and git come to an end, and not every
  claim meets rows locked by a PUT (SF on a claim that meets none). That git ends is assumed: the
  code sets no timeout.
* `tab`: requests are answered and timeouts fire (WF on the chain of polls and on a save), clones are
  begun and end (WF). Nothing is assumed of the person.

## 4. Proofs

For every number of jobs, connections, attempts and resumes, which the module does not bound
(`JobDriver_proofs`):

* The invariant `IInv` is inductive. It adds to `TypeOK` what ties the columns together: a token is
  never ahead of `issued` and is the last one issued while a job runs; attempts and parks add up to
  the tokens issued; a queued job has an attempt left and no live lease; a lock is held by one claim
  and on a claimable row; a remote link is that of the session. None of the properties is inductive
  alone: that a result is the last run's, for example, needs that the token of a running row is
  `issued`, which needs that a queued row has none.
* From it follow, as theorems of `Spec`: `TypeCorrect`, `NoStuckJob`, `AttemptsConserved`,
  `Fencing`, `ExclusiveClaims`, `LinksMatch`; and as action properties `NoTheft` and `Final`.
* `Refinement`: the initial states map to initial states, and each action of the board to an action
  of `JobLifecycle` or to a stutter; the retirement of a claim maps to `GiveUp` of a set of jobs.

For every fleet (in the same module): `SystemInv` adds to `IInv` what the runs know: that a run's
token has been issued to its job, and that the session it holds is its own claim's or the row's.
From it `FleetDrivesTheBoard`, every step of the fleet is a step of `Spec` or leaves the board
alone, so that (`FleetIsFenced`) what is proved of the board holds of the board with its fleet.
`RanInv` adds that a container which is there, an exit of zero and a success all go back to a
container of that attempt which came up, with a session that some claim named. From it `SuccessRan`.
`OneInv` says where the runs and containers of a job may be. A claim has one run and one container,
and no container before `docker run` nor after it has closed; of the containers that drive a session
and the runs about to start one there is one in all; and a row that is neither running nor dead has
none of either left of its last claim, so that the claim which keeps its session finds nobody there.
Containers that come up late, after their driver has ended, are one lemma with those that come up in
time (`ComesUp`), and every other step only takes runs and containers away (`Shrinks`, `Goes`). From it
`SettledHasStopped`, `TranscriptsHaveOneWriter` and `TheLinkIsRight`. None of the three properties is
inductive alone: that a session has one writer needs that a parked job has no container left, and
that the row's session is nobody's but its last claim's.

For every clone queue (`CloneQueue_proofs`), in three invariants:

* `QueueInv`, inductive whatever members do: what a pass has asked for and the clones in flight fit
  into the concurrency (a claim starts at most one clone per row it takes, by an injection from the
  slots it touches to the rows); of the rows of one directory only one was ever inserted, so that a
  tree's place determines its row; what is ready, or about to be marked so, has a tree. From it
  `TypeCorrect`, `ClonesBounded`, `ReadyHasItsCheckout`. With `BusyInv`, for which a claim must find
  a free slot for each of its rows (an injection again, from `SlotsSuffice`), also `CloningIsRun`.
* `WholeInv`, inductive whatever members do and whenever, of the rows that are not `crossed`: a clone in
  flight, and a row whose claim is not answered yet, says cloning, so that no claim takes it again and no
  answer starts a second clone of it; no two clones have one row and thus none a staging directory in
  common; what git has left in one is whole until it is renamed. A PUT or a late `requeueStranded` can
  only break that for rows it queues again, and those it puts into `crossed` (`RequeuedWholeInv`). From it
  `ClonedOnce`, `WholeCheckouts`, `ReadyForGood`.

For every set of repositories and pull requests, every page size and overlap (`StatsService_proofs`),
in three invariants of a sync:

* `CopyInv`: the copies of one pull request are ordered. The provider's is the newest, what a walk
  carries is no older than what was stored when it was read, and the dashboard shows nothing newer
  than the store unless a statement has failed. From it `NeverGoesBack`.
* `RowInv`: a row of the store without a watermark was written by the sync under way, unless
  something has failed. From it `FullWalksKeepToSchedule`.
* `BehindInv`: what a walk has read of a pull request has not changed since, or changed after the walk
  began; what it has passed without reading lies behind its cutoff. The pages of the provider matter
  here: what is not on a page that has a successor comes after the last one on it (`LastOfPage`). A
  cutoff is before everything that was open and behind the watermark (`CutoffBound`), so that a new
  watermark passes nothing that is not stored, unless it changed silently since the last full walk.
  From it `NothingIsLeftBehind`. The property alone is not inductive: it says nothing of a walk that
  has read half of the list and is about to move the watermark.

For the service that starts the syncs (in the same module): its steps are those of a sync or of the
priming (`ServiceSteps`), so that the types carry over. `FreshInv` says "as stored" of the three places
a copy of the store may be in: the cache, while no sync is past its walk; a priming that is about to
fill an empty cache, at such a time; and a sync that is about to publish. A sync that writes cannot
make the first two wrong, because it ends by publishing, by a failed statement, or with its server.
From it `ShownWasStored`.

For every set of branches and commits, in whatever order they land and however a scan begins
(`BranchHistory_proofs`), in three invariants, which except late commits and repositories adrift one by
one, as the properties do:

* `TableInv` says that what is missing of a covered branch, and did not land late, is at most `Overlap`
  behind what is stored of it, so that a scan that goes on that far behind the newest stored commit, or
  before, finds it: one that does not is `TooFarOn`, and its repository adrift from then on. A forced
  push may take the newest commit off the branch and leave its row, and then a scan may go on from
  too late. Nothing is therefore said of a branch some of whose rows have gone from it, except if the
  last scan had read all of them (`Kept`, `Covers`): a commit never comes back, so that such a branch
  is never again one that the table agrees with.
* `ScanInv`: what a scan that has read a branch knows of it while commits land, are pushed off and its
  statements are written one by one or fail. From both `NothingCoveredIsLost`.
* `CountInv`: the count of a row is that of some stored commits which the branch had when it was
  scanned. Counts that add up to the number of the rows are therefore those of all the rows, branch by
  branch (`EachIsCounted`), which rules out the rows of commits that are gone; and then `TableInv` has
  what is covered. From it `RangesAreExact`. The sum of `Total` is a fold over the repositories;
  `CountIsSize` shows it to be the size of a union by giving the fold its result in closed form and
  showing that nothing else satisfies its recursion, without the induction theorems.

For any pull requests, sessions, places and repositories (`Answers_proofs`):

* `WorldInv` and `WorkDiffers`, inductive, say what the world is like that an answer is about: the
  newest pull request of a repository has the greatest number, no two were merged at a moment, no two
  units of work were done at one. The rest is about `attribute` itself, on any such world.
* `RangesKeepTheOwner`: an owner is what stands before all others that may take a split (`Owns`,
  `OwnerOf`). What a range leaves of the list still has it, because it was not merged before the
  work, and nothing that is left comes before it.
* `MergedKeepTheirWork`: what is opened later closes after all that are merged, and so does what is
  merged later; and a session's later work moves no branch it has begun (`StartsStay`).
* `CreditAddsUp`: a record or a split of a session stands for the units of work it counts (`Units`).
  The splits of a session share none, since each ends before the next begins (`EndsOf`), and no part
  of an answer shares one with another: a session that is linked is not matched by its branches, and
  each split that is has one owner or none (`RowsAddUp`). The sum of figures of such parts is the size
  of what they stand for together (`SumIsSize`, which is the closed form of any fold of the answers,
  as in `BranchHistory_proofs`), so that rows and orphans are a part of the whole, and weeks a
  partition of it. Where every session can be divided they are all of it (`DividedIsAll`). That splits of
  one session share nothing needs branches of different names (`NamesAreDistinct`), and what is said of the
  rows says so; the weeks and the groups of sessions add up without it.
* `TheFiguresAgree`, for any lists of pull requests, authors, bots and bounds. What is proved is about
  `compute` itself, since the figures depend on no state. A column of figures is a set of bars, one at
  each position and as long as its figure, and its sum is their number (`BarsSum`, again from
  `SumIsSize`). A table that groups a list by a key adds up to what the list does if every position's
  key has a row (`SumByKey`, `CountByKey`); that it has one is what is particular to each table: a week
  between the first and the last merge, a bucket for every size, an author, a name among those who
  opened a thread. The threads of a pull request are its people's and its bots', and its resolved,
  outdated and live ones (`ThreadStatsIs`), which the sums inherit (`SumAdds`). The n-th of the values in
  their order grows with n, and the ranks of a half and of nine tenths are cases of the remainder that
  the prover's linear arithmetic can do (`PercentilesOrdered`). A review by a person is a review, and
  the later mark leaves the fewer commits (`HumanReviewsAreReviews`).

For any sessions, places, series of a metric and faults (`Telemetry_proofs`), in one invariant, `IInv`,
inductive; a sum of figures is again the size of a set, of pairs (`Pile`, `Units`):

* `MeasuredInv`: what an exporter sent is in the table or on its way, and two rows of one key are one
  row, because what was measured is collected at most once in a moment. An ingest therefore moves rows
  and changes none (`IngestKeeps`), however often it is repeated.
* `DeltaInv`: of a session that exports increments, all its rows and what is yet to be collected are as
  many as its units of work. A collection turns the second into the first (`NewUnits`, a bijection).
* `EpochInv`: a running total counts units of work between its start_time and its row, and what one
  start_time covers ends before the next begins, so that the sum of the last totals is the size of a
  set of work (`RunningTotals`). A restart begins at a moment when all is collected.
* `ImportInv`: the rows of the backfill are those of each session's work up to some moment, one for each
  unit, and what it has still to write of a session comes after what it has written: a chunk only moves
  that moment (`ChunkKeeps`), and so does an import that begins again after another has died half-way. From these `EveryUnitCountsOnce`; the property alone says nothing of a session with both sources
  whose exports are still under way, nor what a total is made of.
* `BranchInv`: a row of `session_branch`, a report and a span to be written all begin when the session
  was at their place. It was at one place at a time (`HeldOnce`), so that no two rows begin together,
  and a slice, which ends before the next row begins, shares no point with another (`SlicesApart`).
  From it `NoUnitIsCreditedTwice`.

For every set of files, every number of attempts and any two processes (`Accounts_proofs`):

* `MigrationInv`, inductive: what is recorded has been applied, and, for each process, what it has
  seen to is so: the files it has not left are recorded, the one it is about to record is applied,
  and from each stage on the stages before it are done. That a step of one process takes nothing away
  from another is one lemma (`OthersKeep`, from `Keeps`), cited for each statement; the delicate case
  is a body that is run again by a process that read an old ledger, which could park rows once more
  after the other has adopted them: it fails, being in `Rekeys`. From it `ReadyIsMigrated`.
* `MembersInv`, inductive: the rows, sessions and callbacks have their types, and a cookie that was
  out at a removal is nobody's. From it `RemovedAreOut` and, as an action property, `MembershipsStay`.
* `SeatsInv`, inductive with the two above: once the server has booted, the stand-in's row is there or,
  with accounts and a first admin named, some row is until the last one is removed. Three statements get a
  server there (`GetsReady`), and each leaves such a row; every statement after only changes whose a row
  is (`RowsStay`), but for a removal, after which either a row is left or the roster is `emptied`. It needs
  that a boot which looks for somebody to invite has accounts and was told of whom, and that a callback
  asks for somebody (`AskingInv`). From it `ThereIsASeat`.
* `DueInv`: somebody who was expected from the moment GitHub named them is still expected, and once
  past the claim a member. The claim makes a member of whoever was invited (`ClaimsASeat`); a rename in
  the middle changes nothing, because a callback keeps the login it came with. From it, as an action
  property, `TheExpectedGetIn`.

For every set of ranges and presses (`Tab_proofs`): `FiguresInv` says what each chain of requests
may still write. The effect's chain asks for the selected range, because a change of the range
cancels it; so does that of a press, unless the range has changed since (`overtaken`, see above);
and when nothing is asked any more, what was asked has been answered. From it `FiguresAreSelected`.

The proofs assume the named assumptions on the constants (`PrAssumption`, `WalkAssumption`, `CommitAssumption`, `DateAssumption`,
`LimitAssumption`, `TelemetryAssumption`, `AttributionAssumption`, `MetricsAssumption`, `MigrationAssumption`, `AccountsAssumption`, `StatsPageAssumption`, `SlotsSuffice` and those of the board and the queue) and nothing else.
`MetricsAssumption` asks of a pull request what its type does (`CanonicalPr`): instants and counts are
numbers, what may be missing is null, its lists are finite. It says nothing of how the counts and the
lists agree, because they need not.

Only model-checked: everything that must eventually happen (`QueuedIsServed`, `SlotsComeBack`,
`EveryJobEnds`, `SelectedIsCloned`, `EveryUpdateArrives`, `VisitorsAreServed`, `PageCatchesUp`),
which is beyond the provers. Every invariant and every action property that a run checks is also a
theorem.

## 5. Not modelled

Output text and its truncation, docker's and git's command lines, configuration parsing, HTTP status
codes other than the verdicts, and authorisation beyond who is a member: they change no state the
properties speak of. More than one organisation: every statement is bound to one. Two servers: the
code assumes one, and says so (`011_user_workspace.sql`). A git process that survives its server:
outside of the container it could. The columns `attempts`, `error`, `started_at` and `ready_at` of
`user_repo` are never read by the queue.

Installation tokens (`app-token.ts`): their cache is a matter of a clock and a margin, and their users
see a token or an error, which the queue and the syncs have as steps that fail. That two callers share
one request, there and in `repo-source.ts`, saves requests and changes no answer. Provisioning makes a
directory that may be made twice. Seed data is straight-line code. Roles, worker tokens and the label
of `app_user` are columns that are written once and read. The panels render what `compute` gives them.
The second cache of the stats service, of the telemetry, is of the same kind as the first one. The
retries of the GitHub client, the backfill of a pull request's long lists and their merging in
`pr-store.ts` are left out of `PrSync`, whose copy of a pull request is whole.

## 6. Where to go on

1. Truncated lists of a pull request's children (`writeChildren` of `pr-store.ts`, the backfill of
   `client.ts`), under `PrSync`.
2. A second tab: two pages of one member that save over one another.
