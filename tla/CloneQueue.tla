------------------------------ MODULE CloneQueue ------------------------------
(***************************************************************************)
(* Members' checkouts: the table user_repo and its statements              *)
(* (user-repo-store.ts), the PUT that replaces a selection                 *)
(* (routes/workspace.ts), the queue that clones what was selected          *)
(* (queue.ts) and the clone itself (reconcile.ts), with the directories it *)
(* writes.                                                                 *)
(*                                                                         *)
(* A checkout is a row: a member and a repository.  Its directory is named *)
(* after the repository alone, so two owners' repositories of one name     *)
(* share one.  The server is one process; it is the first of its container *)
(* and has the same pid after every restart, so that the staging directory *)
(* `<name>.tmp-<pid>` of a checkout is the same one each time.             *)
(*                                                                         *)
(* The steps of a clone: token (awaiting one), spawned (git is started and *)
(* has made no directory yet), git (it fetches), fetched (it has ended     *)
(* well, which is not yet noticed), broken (it has failed), ready and      *)
(* failed (the outcome is being written to the row).                       *)
(***************************************************************************)
EXTENDS Naturals, FiniteSets

CONSTANTS
    Members,
    Checkouts,    \* the rows there may ever be
    MemberOf,     \* whose row each is
    Dirs,         \* directories checkouts go to
    DirOf,        \* <root>/<org>/<user>/<repo name> of each checkout
    Foreign,      \* those that hold something which is not a checkout
    Slots,        \* names for clones in flight
    Concurrency,  \* DEFAULT_CLONE_CONCURRENCY
    MaxPuts,      \* bound: selections saved
    MaxCrashes,   \* bound: crashes of the server
    MaxFaults,    \* bound: statements of the queue that fail or whose answer is lost
    None

ASSUME CheckoutAssumption ==
    /\ MemberOf \in [Checkouts -> Members]
    /\ DirOf \in [Checkouts -> Dirs]
    /\ \A c, d \in Checkouts : DirOf[c] = DirOf[d] => MemberOf[c] = MemberOf[d]
    /\ Foreign \subseteq Dirs
    /\ IsFiniteSet(Checkouts) /\ None \notin Checkouts
ASSUME SlotsAssumption == IsFiniteSet(Slots) /\ None \notin Slots
ASSUME ConcurrencyAssumption == Concurrency \in Nat \ {0}
ASSUME SlotsSuffice == Concurrency <= Cardinality(Slots)
ASSUME BoundsAssumption == {MaxPuts, MaxCrashes, MaxFaults} \subseteq Nat

VARIABLES
    status,    \* user_repo.status, "absent" before the insert
    selected,  \* deselected_at is null
    since,     \* selected_at, as the number of the PUT that set it
    puts,      \* selections saved so far
    kicked,    \* a PUT has committed and its kick is still to come
    proc,      \* the server: down, booting, recovered, polling or unstarted
    room,      \* how many rows the pass under way has asked for; there is none at 0
    made,      \* its claim has been committed, and the answer is on its way
    claimed,   \* the rows that the claim has taken
    clone,     \* the clone in each slot
    staging,   \* the tree at `<name>.tmp-<pid>`
    dest,      \* the tree at `<name>`
    crashes,   \* crashes so far
    faults,    \* statements that have failed so far
    crossed,   \* history: rows that were queued again while they were being cloned
    lost       \* history: rows that a failed statement has left as cloning

rowVars == <<status, selected, since, puts>>
diskVars == <<staging, dest>>
passVars == <<room, made, claimed>>
hurtVars == <<crashes, faults, crossed, lost>>
queueVars == <<rowVars, diskVars, kicked, proc, passVars, clone, hurtVars>>

Steps == {"token", "spawned", "git", "fetched", "broken", "ready", "failed"}

\* A tree in the making names the clone that makes it, one whose maker died None.
NoTree == [by |-> None, of |-> None, whole |-> FALSE]
Trees == [by : Slots \cup {None}, of : Checkouts, whole : BOOLEAN]
Ownerless(tree) == [by |-> None, of |-> tree.of, whole |-> tree.whole]
ForeignTree == [by |-> None, of |-> None, whole |-> TRUE]
Unused == [pc |-> "free", of |-> None]
Clones == [pc : Steps, of : Checkouts] \cup {Unused}

TypeOK ==
    /\ status \in [Checkouts -> {"absent", "queued", "cloning", "ready", "failed"}]
    /\ selected \in [Checkouts -> BOOLEAN]
    /\ since \in [Checkouts -> 0 .. MaxPuts]
    /\ puts \in 0 .. MaxPuts
    /\ kicked \in BOOLEAN
    /\ proc \in {"down", "booting", "recovered", "polling", "unstarted"}
    /\ room \in 0 .. Concurrency
    /\ made \in BOOLEAN
    /\ claimed \subseteq Checkouts
    /\ clone \in [Slots -> Clones]
    /\ staging \in [Dirs -> Trees \cup {NoTree}]
    /\ dest \in [Dirs -> Trees \cup {NoTree, ForeignTree}]
    /\ crashes \in 0 .. MaxCrashes
    /\ faults \in 0 .. MaxFaults
    /\ crossed \subseteq Checkouts
    /\ lost \subseteq Checkouts

Init ==
    /\ status = [c \in Checkouts |-> "absent"]
    /\ selected = [c \in Checkouts |-> FALSE]
    /\ since = [c \in Checkouts |-> 0]
    /\ puts = 0
    /\ kicked = FALSE
    /\ proc = "booting"
    /\ room = 0
    /\ made = FALSE
    /\ claimed = {}
    /\ clone = [s \in Slots |-> Unused]
    /\ staging = [d \in Dirs |-> NoTree]
    /\ dest = [d \in Dirs |-> IF d \in Foreign THEN ForeignTree ELSE NoTree]
    /\ crashes = 0
    /\ faults = 0
    /\ crossed = {}
    /\ lost = {}

InFlight == {s \in Slots : clone[s].pc # "free"}
\* The rows that are being cloned, or will be when the answer to the claim is there.
Underway == claimed \cup {clone[s].of : s \in InFlight}

Dir(s) == DirOf[clone[s].of]
At(s, step) == clone[s].pc = step
Goto(s, step) == clone' = [clone EXCEPT ![s].pc = step]

\* The database, or the connection to it, fails a statement of the queue.
Faults == faults < MaxFaults /\ faults' = faults + 1

-----------------------------------------------------------------------------
(* Selections                                                              *)

Own(m) == {c \in Checkouts : MemberOf[c] = m}

\* The route refuses two repositories of one name before it asks the database.
Selections(m) == {sel \in SUBSET Own(m) : \A c, d \in sel : DirOf[c] = DirOf[d] => c = d}

TakenNever(sel) == FALSE                       \* seeded bug: no user_repo_dir_uk

\* Another row, selected or not, has the directory of one of these: user_repo_dir_uk.
Taken(sel) ==
    \E c \in sel, d \in Checkouts : d # c /\ DirOf[d] = DirOf[c] /\ status[d] # "absent"

\* What selecting a row does to its status; ready rows are left alone.
Requeued(c) == IF status[c] = "ready" THEN "ready" ELSE "queued"

\* The rows among them that have just been queued again.
Crossing == {c \in Checkouts \cap Underway : status'[c] = "queued"}

\* The transaction of a PUT: the selection is upserted, all else is marked as
\* deselected.  A row that breaks the unique index rolls it back, and the route
\* answers 503.
Select(m, sel) ==
    /\ proc # "down"
    /\ puts < MaxPuts
    /\ ~Taken(sel)
    /\ puts' = puts + 1
    /\ status' = [c \in Checkouts |-> IF c \in sel THEN Requeued(c) ELSE status[c]]
    /\ since' = [c \in Checkouts |-> IF c \in sel THEN puts + 1 ELSE since[c]]
    /\ selected' = [c \in Checkouts |->
                       IF c \in Own(m) THEN c \in sel ELSE selected[c]]
    /\ kicked' = TRUE
    /\ crossed' = crossed \cup Crossing
    /\ lost' = lost \ sel
    /\ UNCHANGED <<diskVars, proc, passVars, clone, crashes, faults>>

-----------------------------------------------------------------------------
(* Passes of the queue                                                     *)

RoomIgnoringClones(n) == Concurrency           \* seeded bug: a pass fills every slot

\* The rows a pass asks for when n clones are in flight.
Room(n) == IF n < Concurrency THEN Concurrency - n ELSE 0

\* A pass begins, unless there is one already: then it is joined.
RunPass(n) ==
    /\ room' = IF room = 0 THEN Room(n) ELSE room
    /\ UNCHANGED <<made, claimed>>

Kick ==
    /\ kicked
    /\ kicked' = FALSE
    /\ RunPass(Cardinality(InFlight))
    /\ UNCHANGED <<rowVars, diskVars, proc, clone, hurtVars>>

Poll ==
    /\ proc = "polling"
    /\ room = 0
    /\ RunPass(Cardinality(InFlight))
    /\ UNCHANGED <<rowVars, diskVars, kicked, proc, clone, hurtVars>>

\* Seeded bug: the predicate of the index, not that of the claim.
WaitingOrCloning == {c \in Checkouts : status[c] \in {"queued", "cloning"} /\ selected[c]}

\* The rows that are waiting for a clone.
Waiting == {c \in Checkouts : status[c] = "queued" /\ selected[c]}

\* What claimPending may take: the rows selected first, as many as there is room for.
\* Rows locked by a PUT under way are skipped.
Claimable(locked) ==
    LET open == Waiting \ locked IN
    {C \in SUBSET open :
        /\ Cardinality(C) = IF Cardinality(open) < room THEN Cardinality(open) ELSE room
        /\ \A c \in C, d \in open \ C : since[c] <= since[d]}

\* The claim is committed: its rows say cloning from now on.
ClaimPending(locked) ==
    /\ room > 0 /\ ~made
    /\ claimed' \in Claimable(locked)
    /\ status' = [c \in Checkouts |-> IF c \in claimed' THEN "cloning" ELSE status[c]]
    /\ made' = TRUE
    /\ UNCHANGED <<selected, since, puts, diskVars, kicked, proc, room, clone, hurtVars>>

PassOver == room' = 0 /\ made' = FALSE /\ claimed' = {}

\* A free slot for each row in C.
Place(C) ==
    CHOOSE f \in [C -> Slots \ InFlight] : \A c, d \in C : f[c] = f[d] => c = d

Started(C) ==
    clone' = [s \in Slots |->
                 IF \E c \in C : Place(C)[c] = s
                 THEN [pc |-> "token", of |-> CHOOSE c \in C : Place(C)[c] = s]
                 ELSE clone[s]]

\* The answer is there, and a clone is started for every row the claim took.
ClaimAnswered ==
    /\ made
    /\ Started(claimed)
    /\ PassOver
    /\ UNCHANGED <<rowVars, diskVars, kicked, proc, hurtVars>>

\* The claim fails, or its answer is lost.
ClaimFails ==
    /\ Faults
    /\ room > 0
    /\ PassOver
    /\ lost' = lost \cup claimed
    /\ UNCHANGED <<rowVars, diskVars, kicked, proc, clone, crashes, crossed>>

-----------------------------------------------------------------------------
(* A clone                                                                 *)

\* The token is there: a checkout that exists is left alone, a directory that is not
\* one is refused, and otherwise the staging directory is cleared and git started.
Prepare(s) ==
    /\ At(s, "token")
    /\ \/ dest[Dir(s)] \in Trees /\ Goto(s, "ready") /\ UNCHANGED staging
       \/ dest[Dir(s)] = ForeignTree /\ Goto(s, "failed") /\ UNCHANGED staging
       \/ /\ dest[Dir(s)] = NoTree
          /\ Goto(s, "spawned")
          /\ staging' = [staging EXCEPT ![Dir(s)] = NoTree]
    /\ UNCHANGED <<rowVars, dest, kicked, proc, passVars, hurtVars>>

TokenFails(s) ==
    /\ At(s, "token")
    /\ Goto(s, "failed")
    /\ UNCHANGED <<rowVars, diskVars, kicked, proc, passVars, hurtVars>>

\* git makes its directory, and refuses one that is there.
GitBegins(s) ==
    /\ At(s, "spawned")
    /\ IF staging[Dir(s)] = NoTree
       THEN /\ staging' = [staging EXCEPT ![Dir(s)] =
                              [by |-> s, of |-> clone[s].of, whole |-> FALSE]]
            /\ Goto(s, "git")
       ELSE Goto(s, "broken") /\ UNCHANGED staging
    /\ UNCHANGED <<rowVars, dest, kicked, proc, passVars, hurtVars>>

\* It can only end well in a directory that is still its own.
GitEnds(s) ==
    /\ At(s, "git")
    /\ staging[Dir(s)].by = s
    /\ staging' = [staging EXCEPT ![Dir(s)].whole = TRUE]
    /\ Goto(s, "fetched")
    /\ UNCHANGED <<rowVars, dest, kicked, proc, passVars, hurtVars>>

GitFails(s) ==
    /\ At(s, "git")
    /\ Goto(s, "broken")
    /\ UNCHANGED <<rowVars, diskVars, kicked, proc, passVars, hurtVars>>

FetchedUnawaited(s) == clone[s].pc \in {"git", "fetched"}  \* seeded bug: exec is not awaited

Fetched(s) == At(s, "fetched")

\* The staging directory is renamed into place.
Rename(s) ==
    /\ Fetched(s)
    /\ staging[Dir(s)] # NoTree
    /\ dest[Dir(s)] = NoTree
    /\ dest' = [dest EXCEPT ![Dir(s)] = Ownerless(staging[Dir(s)])]
    /\ staging' = [staging EXCEPT ![Dir(s)] = NoTree]
    /\ Goto(s, "ready")
    /\ UNCHANGED <<rowVars, kicked, proc, passVars, hurtVars>>

\* git or the rename has failed: the staging directory is removed.
CleanUp(s) ==
    /\ \/ At(s, "broken")
       \/ Fetched(s) /\ (staging[Dir(s)] = NoTree \/ dest[Dir(s)] # NoTree)
    /\ staging' = [staging EXCEPT ![Dir(s)] = NoTree]
    /\ Goto(s, "failed")
    /\ UNCHANGED <<rowVars, dest, kicked, proc, passVars, hurtVars>>

LeakedSlot == [pc |-> "leaked", of |-> None]   \* seeded bug: inFlight is not decremented

FreedSlot == Unused

\* The clone is over: its slot is freed and refilled by a pass.
Over(s) ==
    /\ clone' = [clone EXCEPT ![s] = FreedSlot]
    /\ RunPass(Cardinality(InFlight) - 1)
    /\ UNCHANGED <<selected, since, puts, diskVars, kicked, proc, crashes, crossed>>

MarkReady(s) ==
    /\ At(s, "ready")
    /\ status' = [status EXCEPT ![clone[s].of] = "ready"]
    /\ Over(s)
    /\ UNCHANGED <<faults, lost>>

\* markReady throws, its statement executed or not: the clone counts as failed.
MarkReadyFails(s) ==
    /\ Faults
    /\ At(s, "ready")
    /\ status' \in {status, [status EXCEPT ![clone[s].of] = "ready"]}
    /\ Goto(s, "failed")
    /\ UNCHANGED <<selected, since, puts, diskVars, kicked, proc, passVars, crashes,
                   crossed, lost>>

MarkFailed(s) ==
    /\ At(s, "failed")
    /\ status' = [status EXCEPT ![clone[s].of] = "failed"]
    /\ Over(s)
    /\ UNCHANGED <<faults, lost>>

\* That markFailed throws is swallowed, its statement executed or not.
MarkFailedFails(s) ==
    /\ Faults
    /\ At(s, "failed")
    /\ \/ status' = [status EXCEPT ![clone[s].of] = "failed"] /\ UNCHANGED lost
       \/ UNCHANGED status /\ lost' = lost \cup {clone[s].of}
    /\ Over(s)

-----------------------------------------------------------------------------
(* The server                                                              *)

StrandedSelected(c) == status[c] = "cloning" /\ selected[c]  \* seeded bug: as in the claim

Stranded(c) == status[c] = "cloning"

\* requeueStranded; the sweep follows when its answer arrives.
RequeueStranded ==
    /\ proc = "booting"
    /\ status' = [c \in Checkouts |-> IF Stranded(c) THEN "queued" ELSE status[c]]
    /\ proc' = "recovered"
    /\ crossed' = crossed \cup Crossing
    /\ lost' = {}
    /\ UNCHANGED <<selected, since, puts, diskVars, kicked, passVars, clone, crashes, faults>>

\* requeueStranded throws, executed or not, and start() rejects: nothing is swept and
\* nothing polls, but kicks still run passes.
StartFails ==
    /\ Faults
    /\ proc \in {"booting", "recovered"}
    /\ proc' = "unstarted"
    /\ UNCHANGED <<rowVars, diskVars, kicked, passVars, clone, crashes, crossed, lost>>

\* Every staging directory is removed, and the first pass begins.
Sweep ==
    /\ proc = "recovered"
    /\ staging' = [d \in Dirs |-> NoTree]
    /\ proc' = "polling"
    /\ RunPass(Cardinality(InFlight))
    /\ UNCHANGED <<rowVars, dest, kicked, clone, hurtVars>>

\* The server dies, and the git processes of its container with it.
Crash ==
    /\ crashes < MaxCrashes
    /\ proc # "down"
    /\ crashes' = crashes + 1
    /\ proc' = "down"
    /\ kicked' = FALSE
    /\ PassOver
    /\ clone' = [s \in Slots |-> Unused]
    /\ staging' = [d \in Dirs |-> Ownerless(staging[d])]
    /\ UNCHANGED <<rowVars, dest, faults, crossed, lost>>

Boot ==
    /\ proc = "down"
    /\ proc' = "booting"
    /\ UNCHANGED <<rowVars, diskVars, kicked, passVars, clone, hurtVars>>

-----------------------------------------------------------------------------
CloneSteps(s) ==
    \/ Prepare(s) \/ TokenFails(s) \/ GitBegins(s) \/ GitEnds(s) \/ GitFails(s)
    \/ Rename(s) \/ CleanUp(s)
    \/ MarkReady(s) \/ MarkReadyFails(s) \/ MarkFailed(s) \/ MarkFailedFails(s)

Next ==
    \/ \E m \in Members : \E sel \in Selections(m) : Select(m, sel)
    \/ Kick \/ Poll \/ ClaimAnswered \/ ClaimFails
    \/ \E locked \in {{}} \cup {Own(m) : m \in Members} : ClaimPending(locked)
    \/ \E s \in Slots : CloneSteps(s)
    \/ RequeueStranded \/ StartFails \/ Sweep \/ Crash \/ Boot

Spec == Init /\ [][Next]_queueVars

\* The server runs and is started again, and not every claim meets rows that a PUT has
\* locked.  Tokens and git come to an end, one way or the other: the code gives git no
\* timeout, this is assumed of its transport.
Fairness ==
    /\ WF_queueVars(Kick) /\ WF_queueVars(Poll) /\ SF_queueVars(ClaimPending({}))
    /\ WF_queueVars(ClaimAnswered)
    /\ \A s \in Slots : WF_queueVars(CloneSteps(s))
    /\ WF_queueVars(RequeueStranded) /\ WF_queueVars(Sweep) /\ WF_queueVars(Boot)

FairSpec == Spec /\ Fairness

-----------------------------------------------------------------------------
(* Properties                                                              *)

\* No more than Concurrency clones are ever in flight, although passes and the ends of
\* clones interleave and a pass counts before it claims (queue.ts pass).
BoundedClones == Cardinality(InFlight) <= Concurrency

\* A row that says ready has its own repository's checkout on disk, not one of another
\* owner's repository of the same name (reconcile.ts present; user_repo_dir_uk).
ReadyIsOnDisk ==
    \A c \in Checkouts : status[c] = "ready" =>
        dest[DirOf[c]] \in Trees /\ dest[DirOf[c]].of = c

\* What is at a checkout's name is a whole clone, whatever crashed, failed or was selected
\* on the way (reconcile.ts, the staging directory and its rename).  Exempt are checkouts
\* that were queued again while they were being cloned: the second clone clears or refills
\* the staging directory of the first, and half a tree may be renamed into place.
CheckoutIsWhole ==
    \A d \in Dirs : dest[d] \in Trees /\ dest[d].of \notin crossed => dest[d].whole

\* Once the queue has started, a row that says cloning is being cloned, or will be when the
\* answer to its claim is there, also after a crash and whatever is selected meanwhile
\* (011_user_workspace.sql:26 "a 'cloning' row can be owned solely by a live in-process
\* runner").  Exempt are rows whose own claim or markFailed has failed since that start.
CloningHasRunner ==
    proc = "polling" =>
        \A c \in Checkouts : status[c] = "cloning" => c \in Underway \cup lost

\* No checkout is cloned twice at once, whatever passes, kicks, claims and restarts meet:
\* both clones would write to the same staging directory.  Exempt are rows that were queued
\* again while they were being cloned, for which the code does not keep to it: by a PUT that
\* names them (against routes/workspace.ts:18 "replaying it changes nothing"), or by a
\* requeueStranded that comes after a PUT (against user-repo-store.ts:51).
OneClonePerCheckout ==
    \A s, t \in InFlight :
        clone[s].of = clone[t].of /\ clone[s].of \notin crossed => s = t

\* A checkout that was ready stays ready, whatever is selected, restarted or cloned
\* after that (user-repo-store.ts select).  Exempt are rows that were queued again while
\* they were being cloned, and statements that fail: a lost answer to markReady.
ReadyStays ==
    [][\A c \in Checkouts :
          status[c] = "ready" /\ faults = 0 /\ c \notin crossed => status'[c] = "ready"]_queueVars

\* A selected checkout does not wait for ever: it is ready or failed in the end, or the
\* member no longer wants it (queue.ts:148).  A claim or a markFailed of its own that failed
\* may leave it to the next restart, and so may a start that failed.
SelectedIsCloned ==
    \A c \in Checkouts :
        status[c] = "queued" /\ selected[c] ~>
            \/ status[c] \in {"ready", "failed"} \/ ~selected[c]
            \/ c \in lost \/ proc = "unstarted"

\* user-repo-store.ts:51 "a cloning row can only be owned by a live in-process runner,
\* and at boot there are none": what a start requeues is not being cloned.  The code does not keep to
\* it: a selection saved before the start is through is cloned at once.
StrandedIsNotCloned ==
    [][RequeueStranded => \A s \in InFlight : ~Stranded(clone[s].of)]_queueVars

\* docs/workspace.md:169 "an orphaned list of deselected repositories that are still on
\* disk": what the list shows is on disk.  It is not where the row was deselected before its clone.
OrphanedIsOnDisk ==
    \A c \in Checkouts : status[c] # "absent" /\ ~selected[c] => dest[DirOf[c]] # NoTree

\* routes/workspace.ts:221 "Refused here by name rather than discovered as a unique-index
\* violation, which would surface as a 503": no selection the route accepts is refused
\* by the index.  The code does not keep to it: the index covers deselected rows, its check does not.
IndexNeverRefuses == \A m \in Members : \A sel \in Selections(m) : ~Taken(sel)
=============================================================================
