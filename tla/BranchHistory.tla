---------------------------- MODULE BranchHistory ----------------------------
(***************************************************************************)
(* The revert rate: the scan of the base branch that ends every sync       *)
(* (produceHistory in stats-service.ts, fetchBranchHistories in            *)
(* github/client.ts), the tables branch_commit and branch_history          *)
(* (pr-store.ts), and the answer for a range of dates (revertForRange).    *)
(*                                                                         *)
(* A commit is the position of its date among all dates, so that commits   *)
(* are compared as their dates are.  The order in which commits land on a  *)
(* branch is another one.  Reverts are counted along with the commits and  *)
(* add nothing.                                                            *)
(***************************************************************************)
EXTENDS Naturals, FiniteSets, FiniteSetsExt

CONSTANTS
    Repos,
    Commits,      \* by the position of their dates
    RepoOf,       \* the repository of each
    Overlap,      \* HISTORY_OVERLAP_MS, in commits: how many of them an hour holds
    MaxRewinds,   \* bound: commits that a forced push takes off a branch
    MaxFaults     \* bound: statements of the store that fail, and crashes of the server

ASSUME CommitAssumption ==
    /\ IsFiniteSet(Repos) /\ IsFiniteSet(Commits)
    /\ Commits \subseteq Nat \ {0}
    /\ RepoOf \in [Commits -> Repos]
ASSUME DateAssumption == Overlap \in Nat
ASSUME LimitAssumption == {MaxRewinds, MaxFaults} \subseteq Nat

VARIABLES
    landed,    \* the commits on the base branches
    gone,      \* those that were
    earliest,  \* the first merge of a stored pull request, 0 if there is none
    rows,      \* branch_commit
    hist,      \* branch_history of each repository
    scan,      \* the scan under way
    snap,      \* the snapshot in the cache
    late,      \* history: commits that landed dated further behind their branch than Overlap
    adrift,    \* history: repositories of which a scan began further on than it had to
    rewinds, faults

branchVars == <<landed, gone, earliest, late>>
tableVars == <<rows, hist>>
limitVars == <<adrift, rewinds, faults>>
historyVars == <<branchVars, tableVars, scan, snap, limitVars>>

Dates == {0} \cup Commits
CommitsOf(repos) == {c \in Commits : RepoOf[c] \in repos}
Newest(commits) == Max({0} \cup commits)
AtTheTip(date) == date                        \* seeded bug: a commit is never dated before its parent

Behind(date) == IF date > Overlap THEN date - Overlap ELSE 0

\* A repository's row: whence its commits are covered, and how many the provider counted;
\* seen is history, the branch as of the scan the row is of.
Histories == [covered : BOOLEAN, from : Nat, commits : Nat, seen : SUBSET Commits]
Uncovered == [covered |-> FALSE, from |-> 0, commits |-> 0, seen |-> {}]

\* What the cache has: whether the revert rate is available, the commits, and the coverage.
Snapshots == [ok : BOOLEAN, commits : SUBSET Commits, hist : [Repos -> Histories]]
Nothing == [ok |-> FALSE, commits |-> {}, hist |-> [r \in Repos |-> Uncovered]]

\* The steps of a scan, of which the repositories are taken in an order that does not change.
Steps == {"idle", "reading", "rows", "history", "loading"}
Idle == [pc |-> "idle", left |-> {}, since |-> [r \in Repos |-> 0],
         found |-> {}, seen |-> {}]

\* Types of the variables.
HistoryTypeOK ==
    /\ landed \subseteq Commits /\ gone \subseteq Commits /\ rows \subseteq Commits
    /\ earliest \in Dates
    /\ hist \in [Repos -> Histories]
    /\ scan \in [pc : Steps, left : SUBSET Repos, since : [Repos -> Nat],
                 found : SUBSET Commits, seen : SUBSET Commits]
    /\ snap \in Snapshots
    /\ late \subseteq Commits /\ adrift \subseteq Repos
    /\ rewinds \in 0 .. MaxRewinds /\ faults \in 0 .. MaxFaults

Init ==
    /\ landed = {} /\ gone = {} /\ rows = {}
    /\ earliest = 0
    /\ hist = [r \in Repos |-> Uncovered]
    /\ scan = Idle
    /\ snap = Nothing
    /\ late = {} /\ adrift = {}
    /\ rewinds = 0 /\ faults = 0

Fault == faults < MaxFaults /\ faults' = faults + 1

-----------------------------------------------------------------------------
(* The branches                                                            *)

\* Is a commit dated further behind its branch than the overlap, as those of a merge may be?
Belated(c) == \E d \in landed : RepoOf[d] = RepoOf[c] /\ d > c + Overlap

Land(c) ==
    /\ c \notin landed \cup gone
    /\ landed' = landed \cup {c}
    /\ late' = IF Belated(c) THEN late \cup {c} ELSE late
    /\ UNCHANGED <<gone, earliest, tableVars, scan, snap, limitVars>>

Rewind(c) ==
    /\ rewinds < MaxRewinds
    /\ rewinds' = rewinds + 1
    /\ c \in landed
    /\ landed' = landed \ {c} /\ gone' = gone \cup {c}
    /\ UNCHANGED <<earliest, late, tableVars, scan, snap, adrift, faults>>

\* The sync has a pull request that was merged before all the others in the store.
MergeStored(date) ==
    /\ scan.pc = "idle"
    /\ earliest = 0 \/ date < earliest
    /\ earliest' = date
    /\ UNCHANGED <<landed, gone, late, tableVars, scan, snap, limitVars>>

-----------------------------------------------------------------------------
(* A scan                                                                  *)

\* A repository goes on just behind its newest commit in the snapshot; one without any begins
\* at the first merge.
SinceOf(r, merge) ==
    LET held == snap.commits \cap CommitsOf({r}) IN
    IF held = {} THEN merge ELSE Behind(Newest(held))

\* Does a scan begin past what is covered and past what overlaps with the newest stored commit?
\* It may if what the cache has is not what is stored.
TooFarOn(r, since) ==
    /\ hist[r].covered /\ since > hist[r].from
    /\ since > Behind(Newest(rows \cap CommitsOf({r})))

\* A merge bounds the scan of a branch with a long past: the first of those stored or, if they
\* cannot be read back, of those that the walk has just brought.
BeginScan(merge) ==
    /\ scan.pc = "idle"
    /\ \/ merge = earliest /\ UNCHANGED faults
       \/ Fault
    /\ scan' = [Idle EXCEPT !.pc = "reading", !.left = Repos,
                            !.since = [r \in Repos |-> SinceOf(r, merge)]]
    /\ adrift' = adrift \cup {r \in Repos : TooFarOn(r, SinceOf(r, merge))}
    /\ UNCHANGED <<branchVars, tableVars, snap, rewinds>>

\* No pull request that is known is merged: nothing bounds a scan, and there is none.
NoMerge ==
    /\ scan.pc = "idle"
    /\ \/ earliest = 0 /\ UNCHANGED faults
       \/ Fault
    /\ snap' = [snap EXCEPT !.ok = FALSE]
    /\ UNCHANGED <<branchVars, tableVars, scan, adrift, rewinds>>

IsNext(r) == scan.left # {} /\ r = CHOOSE next \in scan.left : TRUE

\* The pages of a history hang on the commit it was asked for first.
ReadHistory(r) ==
    /\ scan.pc = "reading"
    /\ IsNext(r)
    /\ LET branch == landed \cap CommitsOf({r}) IN
       scan' = [scan EXCEPT !.left = @ \ {r},
                            !.found = @ \cup {c \in branch : c >= scan.since[r]},
                            !.seen = @ \cup branch]
    /\ UNCHANGED <<branchVars, tableVars, snap, limitVars>>

\* One branch that cannot be read disqualifies them all; what was held is kept.
ReadFails ==
    /\ scan.pc = "reading"
    /\ snap' = [snap EXCEPT !.ok = FALSE]
    /\ scan' = Idle
    /\ UNCHANGED <<branchVars, tableVars, limitVars>>

AllRead ==
    /\ scan.pc = "reading" /\ scan.left = {}
    /\ scan' = [scan EXCEPT !.pc = "rows", !.left = Repos]
    /\ UNCHANGED <<branchVars, tableVars, snap, limitVars>>

Found(r) == scan.found \cap CommitsOf({r})

SaveRows(r) ==
    /\ scan.pc = "rows"
    /\ IsNext(r)
    /\ rows' = rows \cup Found(r)
    /\ scan' = [scan EXCEPT !.pc = "history"]
    /\ UNCHANGED <<branchVars, hist, snap, limitVars>>

\* What a scan from `since` on makes of a row: coverage only grows backwards, and the count is
\* the scan's.
Upserted(old, since, found, seen) ==
    [covered |-> TRUE, from |-> IF old.covered THEN Min({old.from, since}) ELSE since,
     commits |-> Cardinality(found), seen |-> seen]

SaveHistory(r) ==
    /\ scan.pc = "history"
    /\ IsNext(r)
    /\ hist' = [hist EXCEPT ![r] =
                   Upserted(@, scan.since[r], Found(r), scan.seen \cap CommitsOf({r}))]
    /\ scan' = [scan EXCEPT !.pc = IF scan.left = {r} THEN "loading" ELSE "rows", !.left = @ \ {r}]
    /\ UNCHANGED <<branchVars, rows, snap, limitVars>>

\* The first statement that fails ends all writing.
WriteFails ==
    /\ scan.pc \in {"rows", "history"}
    /\ Fault
    /\ scan' = [scan EXCEPT !.pc = "loading", !.left = {}]
    /\ UNCHANGED <<branchVars, tableVars, snap, adrift, rewinds>>

Published(commits, coverage) ==
    /\ snap' = [ok |-> TRUE, commits |-> commits, hist |-> coverage]
    /\ scan' = Idle

LoadHistory ==
    /\ scan.pc = "loading"
    /\ Published(rows, hist)
    /\ UNCHANGED <<branchVars, tableVars, limitVars>>

\* Nothing can be read back: the scan itself is shown.
LoadFails ==
    /\ scan.pc = "loading"
    /\ Fault
    /\ Published(scan.found, [r \in Repos |->
           Upserted(Uncovered, scan.since[r], Found(r), scan.seen \cap CommitsOf({r}))])
    /\ UNCHANGED <<branchVars, tableVars, adrift, rewinds>>

\* The next server primes its cache from the tables, or cannot.
Restart(primed) ==
    /\ Fault
    /\ scan' = Idle
    /\ snap' = IF primed
               THEN [ok |-> \E r \in Repos : hist[r].covered, commits |-> rows, hist |-> hist]
               ELSE Nothing
    /\ UNCHANGED <<branchVars, tableVars, adrift, rewinds>>

-----------------------------------------------------------------------------

Next ==
    \/ \E c \in Commits : Land(c) \/ Rewind(c) \/ MergeStored(c) \/ BeginScan(c)
    \/ \E r \in Repos : ReadHistory(r) \/ SaveRows(r) \/ SaveHistory(r)
    \/ NoMerge \/ AllRead \/ ReadFails \/ WriteFails \/ LoadHistory \/ LoadFails
    \/ \E primed \in BOOLEAN : Restart(primed)

Spec == Init /\ [][Next]_historyVars

-----------------------------------------------------------------------------
(* The revert rate of a range                                              *)

Total == MapThenSumSet(LAMBDA r : snap.hist[r].commits, Repos)

AnyCounted == TRUE                            \* seeded bug: whatever is stored will do

\* As many commits are stored as the provider counted.
AllCounted == Cardinality(snap.commits) = Total

\* Is a range that begins at a date answered?  Not unless every counted commit is there and
\* every repository is covered that far back.
Answered(date) ==
    /\ snap.ok
    /\ snap.commits # {}
    /\ AllCounted
    /\ \A r \in Repos : snap.hist[r].covered /\ snap.hist[r].from <= date

Within(commits, date) == {c \in commits : c >= date}
Seen == UNION {snap.hist[r].seen : r \in Repos}

-----------------------------------------------------------------------------
(* Properties                                                              *)

\* A range that is answered at all is answered from the commits that the branches had when they
\* were last scanned, although scans are incremental, rows are never deleted, a branch may lose
\* commits, and writes, reads and servers may fail half-way (stats-service.ts revertForRange, "a
\* ratio over an unknown subset").  None is counted that the branch did not have, and none is
\* left out, but for those that an incremental scan cannot know of: commits that landed dated
\* more than the overlap behind their branch, as a merge may bring them in, and those of a
\* repository of which a scan began further on than what is stored calls for: behind a scan
\* that was shown but not written, or at a first merge while the cache was not primed or the
\* stored pull requests could not be read.
RangeIsExact ==
    \A date \in Commits : Answered(date) =>
        /\ Within(snap.commits, date) \subseteq Seen
        /\ Within(Seen, date) \ (late \cup CommitsOf(adrift)) \subseteq snap.commits

\* Whence a repository is covered, its commits are in the table: a scan that goes on from the
\* newest commit leaves out none of those dated up to the overlap before it (stats-service.ts:514
\* "a zero-overlap resume genuinely skips it").  It does leave out those that land dated further
\* behind.  Exempt are repositories of which a scan began further on than what is stored calls
\* for, and branches that have lost commits.
CoveredIsStored ==
    rewinds = 0 => \A r \in Repos \ adrift :
        hist[r].covered => Within(hist[r].seen, hist[r].from) \ late \subseteq rows

\* The figure of all time is over every commit it says it covers ("The all-time figure as the
\* provider reported it", stats-service.ts StatsSnapshot.history).  The code does not keep to
\* it: an incremental scan replaces the count by that of its overlap (pr-store.ts:389).
AllTimeIsWhole ==
    snap.ok => \A r \in Repos :
        snap.hist[r].commits = Cardinality(Within(snap.hist[r].seen, snap.hist[r].from))
===============================================================================
