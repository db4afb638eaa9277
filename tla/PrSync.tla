-------------------------------- MODULE PrSync --------------------------------
(***************************************************************************)
(* How pull requests get from the provider to the dashboard: one sync of   *)
(* the stats service (produce in stats-service.ts), the walk of the        *)
(* provider's lists it asks for (fetchPullRequests in github/client.ts),   *)
(* the tables it writes and reads back (pr-store.ts), and the snapshot it  *)
(* leaves in the cache (cache.ts).                                         *)
(*                                                                         *)
(* Time is counted in changes of pull requests: `clock` is the number of   *)
(* the last one, and a timestamp the number of a change.  A change is      *)
(* silent if the provider does not move updatedAt for it.  The two         *)
(* periods the code measures, 14 days and 24 hours, are `floor`, the first *)
(* change that is still within the former, and `due`, the latter being     *)
(* over for a repository's last full walk.                                 *)
(***************************************************************************)
EXTENDS Naturals, FiniteSets, FiniteSetsExt

CONSTANTS
    Repos,
    Prs,          \* pull requests there may be, by number; none has the same number as another
    RepoOf,       \* whose pull request each is
    GrantedFirst, \* repositories the App may read from the beginning
    OpenedFirst,  \* how many of them are there when the server first runs
    PageSize,     \* PAGE_SIZE
    Overlap,      \* SYNC_OVERLAP_MS, in changes: how many of them five minutes hold
    MayRunShort,  \* may a walk leave less of the budget than a full one costs?
    MaxChanges,   \* bound: changes of pull requests
    MaxWoes       \* bound: syncs that fail, statements of the store that do, crashes

ASSUME PrAssumption ==
    /\ IsFiniteSet(Repos) /\ IsFiniteSet(Prs)
    /\ Prs \subseteq Nat \ {0}
    /\ RepoOf \in [Prs -> Repos]
    /\ GrantedFirst \subseteq Repos
    /\ OpenedFirst \in 0 .. MaxChanges
ASSUME WalkAssumption == PageSize \in Nat \ {0} /\ Overlap \in Nat /\ MayRunShort \in BOOLEAN
ASSUME LimitAssumption == {MaxChanges, MaxWoes} \subseteq Nat

VARIABLES
    clock,     \* changes so far
    pr,        \* each pull request at the provider
    granted,   \* repositories the App may read
    floor,     \* the first change of the last 14 days
    row,       \* pull_request: each pull request in the store
    mark,      \* sync_state.watermark_at, 0 for null
    due,       \* sync_state.last_full_at is null or more than 24 hours ago
    poor,      \* sync_state.last_rate_limit cannot pay for a full walk
    fullFrom,  \* history: when the walk began that last_full_at speaks of
    known,     \* the repository source has had an answer
    listed,    \* and this is its snapshot
    sync,      \* the sync under way
    cached,    \* the cache has an entry
    shown,     \* and these are the pull requests in it
    failures, faults, crashes

forgeVars == <<clock, pr, granted, floor>>
storeVars == <<row, mark, due, poor, fullFrom>>
cacheVars == <<cached, shown>>
woeVars == <<failures, faults, crashes>>
listVars == <<known, listed>>
syncVars == <<forgeVars, storeVars, listVars, sync, cacheVars, woeVars>>

Times == 0 .. MaxChanges
\* A pull request as of some moment: its last change, and its last one that was not silent.
Copies == [ver : Times, at : Times, open : BOOLEAN]
Unknown == [ver |-> 0, at |-> 0, open |-> FALSE]
NoCopies == [p \in Prs |-> Unknown]
Known(copies) == {p \in Prs : copies[p].ver # 0}
Of(repos) == {p \in Prs : RepoOf[p] \in repos}

Steps == {"idle", "listing", "reading", "walking", "writing", "loading", "history"}
Idle == [pc |-> "idle", from |-> 0, mode |-> "full", cutoff |-> [r \in Repos |-> 0],
         left |-> {}, cursor |-> 0, got |-> NoCopies, done |-> {}, poor |-> FALSE]

\* Types of the variables.
TypeOK ==
    /\ clock \in Times
    /\ pr \in [Prs -> Copies] /\ row \in [Prs -> Copies] /\ shown \in [Prs -> Copies]
    /\ granted \subseteq Repos /\ listed \subseteq Repos
    /\ floor \in 1 .. MaxChanges + 1
    /\ mark \in [Repos -> Times] /\ fullFrom \in [Repos -> Times]
    /\ due \in [Repos -> BOOLEAN] /\ poor \in [Repos -> BOOLEAN]
    /\ sync \in [pc : Steps, from : Times, mode : {"full", "incremental"},
                 cutoff : [Repos -> Times], left : SUBSET Repos, cursor : Nat,
                 got : [Prs -> Copies], done : SUBSET Repos, poor : BOOLEAN]
    /\ {known, cached} \subseteq BOOLEAN
    /\ {failures, faults, crashes} \subseteq 0 .. MaxWoes

Init ==
    /\ clock = OpenedFirst
    /\ pr = [p \in Prs |-> IF p <= OpenedFirst THEN [ver |-> p, at |-> p, open |-> TRUE]
                                              ELSE Unknown]
    /\ row = NoCopies /\ shown = NoCopies
    /\ granted = GrantedFirst
    /\ known = FALSE /\ listed = {}
    /\ floor = 1
    /\ mark = [r \in Repos |-> 0] /\ fullFrom = [r \in Repos |-> 0]
    /\ due = [r \in Repos |-> TRUE] /\ poor = [r \in Repos |-> FALSE]
    /\ sync = Idle
    /\ cached = FALSE
    /\ failures = 0 /\ faults = 0 /\ crashes = 0

Woe == failures + faults + crashes < MaxWoes

\* A statement of the store fails; tryStore says so in the payload and goes on.
Fault == Woe /\ faults' = faults + 1

At(step) == sync.pc = step
Goto(step) == sync' = [sync EXCEPT !.pc = step]

-----------------------------------------------------------------------------
(* The provider, and time                                                  *)

Becomes(p, copy) ==
    /\ clock < MaxChanges
    /\ clock' = clock + 1
    /\ pr' = [pr EXCEPT ![p] = copy]
    /\ UNCHANGED <<granted, floor, storeVars, listVars, sync, cacheVars, woeVars>>

Opened(p) ==
    /\ p \notin Known(pr)
    /\ \A q \in Of({RepoOf[p]}) : q < p => q \in Known(pr)
    /\ Becomes(p, [ver |-> clock + 1, at |-> clock + 1, open |-> TRUE])

\* A push, a comment, a merge, a reopening.
Updated(p, open) ==
    /\ p \in Known(pr)
    /\ Becomes(p, [ver |-> clock + 1, at |-> clock + 1, open |-> open])

\* A thread resolved, a label removed, a review dismissed.
ChangedSilently(p) ==
    /\ p \in Known(pr)
    /\ Becomes(p, [pr[p] EXCEPT !.ver = clock + 1])

Grant(r) ==
    /\ r \notin granted
    /\ granted' = granted \cup {r}
    /\ UNCHANGED <<clock, pr, floor, storeVars, listVars, sync, cacheVars, woeVars>>

DayPasses(r) ==
    /\ ~due[r]
    /\ due' = [due EXCEPT ![r] = TRUE]
    /\ UNCHANGED <<forgeVars, row, mark, poor, fullFrom, listVars, sync, cacheVars, woeVars>>

\* Changes leave the last 14 days.  What a walk of the last day began after has
\* not, and a sync takes less than the difference.
Ages(f) ==
    /\ floor < f
    /\ \A r \in Repos : due[r] \/ f <= fullFrom[r] + 1
    /\ sync.pc \in {"idle", "listing", "reading"} \/ f <= sync.from + 1
    /\ floor' = f
    /\ UNCHANGED <<clock, pr, granted, storeVars, listVars, sync, cacheVars, woeVars>>

-----------------------------------------------------------------------------
(* A sync                                                                  *)

\* Any reader of the list refreshes the snapshot, if it has expired.
RefreshList ==
    /\ known' = TRUE /\ listed' = granted
    /\ UNCHANGED <<forgeVars, storeVars, sync, cacheVars, woeVars>>

Start ==
    /\ At("idle")
    /\ Goto("listing")
    /\ UNCHANGED <<forgeVars, storeVars, listVars, cacheVars, woeVars>>

\* The list is fetched, or it has not expired, or an older one serves.
ListRepos ==
    /\ At("listing")
    /\ known' = TRUE /\ listed' \in {granted} \cup IF known THEN {listed} ELSE {}
    /\ Goto("reading")
    /\ UNCHANGED <<forgeVars, storeVars, cacheVars, woeVars>>

\* No list, and no older one: produce throws.
ListUnavailable ==
    /\ At("listing")
    /\ listed = {}
    /\ Woe
    /\ failures' = failures + 1
    /\ sync' = Idle
    /\ UNCHANGED <<forgeVars, storeVars, listVars, cacheVars, faults, crashes>>

NeverWalked == {r \in listed : mark[r] = 0}
Affordable == \A r \in listed : ~poor[r]

ChooseModeUngated(stateRead) ==              \* seeded bug: the budget decides, not the schedule
    IF ~stateRead \/ NeverWalked # {} \/ Affordable THEN "full" ELSE "incremental"

ChooseMode(stateRead) ==
    IF \/ ~stateRead /\ listed # {}
       \/ NeverWalked # {}
       \/ (\E r \in listed : due[r]) /\ Affordable
    THEN "full" ELSE "incremental"

NoOldestOpen(r) == {}                        \* seeded bug: an open one is as good as a closed one

OldestOpen(r) == {row[p].at : p \in {q \in Of({r}) : row[q].open}}
Behind(t) == IF t > Overlap THEN t - Overlap ELSE 0

\* From where on the next incremental walk of a repository sees every change.
Cutoff(r, open) == Min({Behind(mark[r]), floor} \cup open)

BuildCutoff(stateRead, openRead) ==
    [r \in Repos |->
        IF stateRead /\ r \in listed /\ mark[r] # 0
        THEN Cutoff(r, IF openRead THEN OldestOpen(r) ELSE {}) ELSE 0]

\* The two reads of the store, the mode and the cutoffs.
BeginWalk(stateRead, openRead) ==
    /\ At("reading")
    /\ IF stateRead /\ openRead THEN UNCHANGED faults ELSE Fault
    /\ sync' = [sync EXCEPT !.pc = "walking", !.from = clock, !.left = listed,
                            !.mode = ChooseMode(stateRead),
                            !.cutoff = BuildCutoff(stateRead, openRead)]
    /\ UNCHANGED <<forgeVars, storeVars, listVars, cacheVars, failures, crashes>>

\* A full walk goes from the newest number down, an incremental one from the last update back.
Key(p) == IF sync.mode = "full" THEN p ELSE pr[p].at
Beyond(r) == {p \in Of({r}) \cap Known(pr) : sync.cursor = 0 \/ Key(p) < sync.cursor}
IsPage(page, rest) ==
    /\ page \subseteq rest
    /\ Cardinality(page) = IF Cardinality(rest) < PageSize THEN Cardinality(rest) ELSE PageSize
    /\ \A p \in page, q \in rest \ page : Key(p) > Key(q)

\* The walk of a repository is over: there is no other page, or all of this one is too old.
Completes(r, page, rest) ==
    \/ page = rest
    \/ sync.mode = "incremental" /\ \A p \in page : pr[p].at < sync.cutoff[r]

ReadPage(r) ==
    /\ At("walking") /\ sync.left # {}
    /\ r = CHOOSE next \in sync.left : TRUE
    /\ \E page \in SUBSET Beyond(r) :
        /\ IsPage(page, Beyond(r))
        /\ LET over == Completes(r, page, Beyond(r)) IN
           sync' = [sync EXCEPT
               !.got = [p \in Prs |-> IF p \in page THEN pr[p] ELSE sync.got[p]],
               !.left = IF over THEN @ \ {r} ELSE @,
               !.done = IF over THEN @ \cup {r} ELSE @,
               !.cursor = IF over THEN 0 ELSE Min({Key(p) : p \in page})]
    /\ UNCHANGED <<forgeVars, storeVars, listVars, cacheVars, woeVars>>

\* The last answer says what is left of the budget.
WalkEnds(short) ==
    /\ At("walking") /\ sync.left = {}
    /\ short => MayRunShort
    /\ sync' = [sync EXCEPT !.pc = "writing", !.poor = short, !.cutoff = Idle.cutoff]
    /\ UNCHANGED <<forgeVars, storeVars, listVars, cacheVars, woeVars>>

\* A request that fails is thrown to the caller of produce.
WalkFails ==
    /\ At("walking")
    /\ Woe
    /\ failures' = failures + 1
    /\ sync' = Idle
    /\ UNCHANGED <<forgeVars, storeVars, listVars, cacheVars, faults, crashes>>

Unsaved == {p \in Known(sync.got) : row[p] # sync.got[p]}

\* One transaction for each pull request.
SavePullRequest(p) ==
    /\ At("writing")
    /\ p \in Unsaved
    /\ row' = [row EXCEPT ![p] = sync.got[p]]
    /\ UNCHANGED <<forgeVars, mark, due, poor, fullFrom, listVars, sync, cacheVars, woeVars>>

Seen(r) == {sync.got[p].at : p \in Of({r}) \cap Known(sync.got)}
Unrecorded == sync.done \cap listed

\* sync_state: the watermark never goes back, and last_full_at is a full walk's.
RecordSync(r) ==
    /\ At("writing") /\ Unsaved = {}
    /\ r \in Unrecorded
    /\ mark' = [mark EXCEPT ![r] = Max({@} \cup Seen(r))]
    /\ due' = [due EXCEPT ![r] = @ /\ sync.mode # "full"]
    /\ fullFrom' = [fullFrom EXCEPT ![r] = IF sync.mode = "full" THEN sync.from ELSE @]
    /\ poor' = [poor EXCEPT ![r] = sync.poor]
    /\ sync' = [sync EXCEPT !.done = @ \ {r}]
    /\ UNCHANGED <<forgeVars, row, listVars, cacheVars, woeVars>>

Written ==
    /\ At("writing") /\ Unsaved = {} /\ Unrecorded = {}
    /\ Goto("loading")
    /\ UNCHANGED <<forgeVars, storeVars, listVars, cacheVars, woeVars>>

\* The first statement that fails ends all writing.
WriteFails ==
    /\ At("writing")
    /\ Fault
    /\ Goto("loading")
    /\ UNCHANGED <<forgeVars, storeVars, listVars, cacheVars, failures, crashes>>

StoredOpen(repos) ==                         \* seeded bug: only open ones are read back
    [p \in Prs |-> IF RepoOf[p] \in repos /\ row[p].open THEN row[p] ELSE Unknown]

Stored(repos) == [p \in Prs |-> IF RepoOf[p] \in repos THEN row[p] ELSE Unknown]

\* The full set comes from the store.
LoadPullRequests ==
    /\ At("loading")
    /\ sync' = [sync EXCEPT !.pc = "history", !.got = Stored(listed)]
    /\ UNCHANGED <<forgeVars, storeVars, listVars, cacheVars, woeVars>>

\* Or it is what the walk has returned.
LoadFails ==
    /\ At("loading")
    /\ Fault
    /\ Goto("history")
    /\ UNCHANGED <<forgeVars, storeVars, listVars, cacheVars, failures, crashes>>

\* The history of the base branch has been dealt with, well or not.
Publish ==
    /\ At("history")
    /\ cached' = TRUE
    /\ shown' = sync.got
    /\ sync' = Idle
    /\ UNCHANGED <<forgeVars, storeVars, listVars, woeVars>>

\* The server dies, and another one starts with nothing but the store.
Crash ==
    /\ Woe
    /\ crashes' = crashes + 1
    /\ sync' = Idle
    /\ known' = FALSE /\ listed' = {}
    /\ cached' = FALSE
    /\ shown' = NoCopies
    /\ UNCHANGED <<forgeVars, storeVars, failures, faults>>

-----------------------------------------------------------------------------

Environment ==
    \/ \E p \in Prs : Opened(p) \/ ChangedSilently(p) \/ \E open \in BOOLEAN : Updated(p, open)
    \/ \E r \in Repos : Grant(r) \/ DayPasses(r)
    \/ \E f \in 1 .. clock + 1 : Ages(f)
    \/ RefreshList

SyncSteps ==
    \/ ListRepos
    \/ \E stateRead, openRead \in BOOLEAN : BeginWalk(stateRead, openRead)
    \/ \E r \in Repos : ReadPage(r) \/ RecordSync(r)
    \/ \E short \in BOOLEAN : WalkEnds(short)
    \/ \E p \in Prs : SavePullRequest(p)
    \/ Written \/ WriteFails \/ LoadPullRequests \/ LoadFails \/ Publish

Next ==
    \/ Environment
    \/ Start \/ SyncSteps \/ ListUnavailable \/ WalkFails
    \/ Crash

Spec == Init /\ [][Next]_syncVars

-----------------------------------------------------------------------------
(* Properties                                                              *)

\* The store has not the last change of p, and the walks are meant to bring it without the
\* daily full one: p has moved its updatedAt, or the store believes it open.
Missed(p) == pr[p].ver # row[p].ver /\ (pr[p].at # row[p].at \/ row[p].open)

\* What the store misses of a repository lies within the next incremental walk, whatever
\* changed while the last one turned its pages, whatever failed and whenever the server
\* died, or else the daily full walk is due (stats-service.ts buildCutoff, and "Advancing
\* it after a partial walk skips everything the walk never reached" at 429).
NothingLeftBehind ==
    \A p \in Prs : LET r == RepoOf[p] IN
        Missed(p) /\ mark[r] # 0 => due[r] \/ pr[p].at >= Cutoff(r, OldestOpen(r))

\* No pull request of the dashboard disappears or goes back to an earlier change, through
\* walks of either kind, failed walks and repositories that are added, unless the server or
\* a statement of the store dies (cache.ts:35 "the last good render").
SnapshotNeverGoesBack ==
    [][ \A p \in Prs : (crashes' = crashes /\ faults = 0) => shown'[p].ver >= shown[p].ver ]_syncVars

\* Nothing but the schedule makes a sync walk everything again, once each repository has a
\* pull request in the store; the budget may only put it off (stats-service.ts chooseMode).
FullWalksAreDue ==
    [][ (At("reading") /\ sync'.pc = "walking" /\ sync'.mode = "full" /\ faults' + crashes = 0) =>
            \/ \E r \in listed : Of({r}) \cap Known(row) = {}
            \/ \E r \in listed : due[r] ]_syncVars

\* The last change of a pull request, of either kind, reaches the dashboard in the end once
\* the App may read its repository (stats-service.ts produce, ensureFresh).
EveryUpdateArrives ==
    \A p \in Prs, t \in 1 .. MaxChanges :
        (pr[p].ver = t /\ RepoOf[p] \in granted) ~> (shown[p].ver >= t)

\* As stats-service.ts:57 has it, "Whatever was already cached keeps rendering" while the
\* database fails.  The code does not keep to it: LoadFails publishes the walk alone.
CachedKeepsRendering ==
    [][ \A p \in Prs : crashes' = crashes => shown'[p].ver >= shown[p].ver ]_syncVars

\* As stats-service.ts:631 has it, the full walk "is gated by its own 24h schedule".  It is
\* not for an organisation with a repository that has no pull requests, and no watermark.
FullWalksAreGated ==
    [][ (At("reading") /\ sync'.pc = "walking" /\ sync'.mode = "full" /\ faults' = faults) =>
            \E r \in listed : due[r] ]_syncVars
===============================================================================
