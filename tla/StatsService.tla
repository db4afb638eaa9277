----------------------------- MODULE StatsService -----------------------------
(***************************************************************************)
(* What drives the syncs of PrSync: the stats service (stats-service.ts)   *)
(* and its cache (cache.ts).  At boot, prime fills the empty cache from    *)
(* the store; the requests of dashboards start a sync when the entry is    *)
(* stale (ensureFresh), the button of the dashboard at any time (refresh). *)
(* One sync runs at a time; its progress and its failure are what a        *)
(* dashboard is told (fetchState), and a failed one is not tried again for *)
(* a while.                                                                *)
(***************************************************************************)
EXTENDS PrSync

VARIABLES
    prime,     \* the priming of the cache: its step, and what it has read
    stale,     \* the entry is older than the TTL
    lastSync,  \* sync_state.last_sync_at: never, recent (within the TTL) or old
    fetch,     \* fetchState.state
    cooling    \* the last failure is less than ERROR_COOLDOWN_MS ago

serviceVars == <<prime, stale, lastSync, fetch, cooling>>
statsVars == <<syncVars, serviceVars>>

PrimeSteps == {"listing", "reading", "read", "done"}
Unprimed == [pc |-> "listing", got |-> NoCopies, fresh |-> FALSE]

\* Types of the variables, and what a dashboard is told while a sync goes on: that it is.
ServiceTypeOK ==
    /\ TypeOK
    /\ prime \in [pc : PrimeSteps, got : [Prs -> Copies], fresh : BOOLEAN]
    /\ {stale, cooling} \subseteq BOOLEAN
    /\ lastSync \in [Repos -> {"never", "recent", "old"}]
    /\ fetch \in {"idle", "loading", "error"}
    /\ At("idle") \/ fetch = "loading"

\* Boot calls prime and then ensureFresh, which finds it under way and does nothing.
ServiceInit ==
    /\ Init
    /\ prime = Unprimed
    /\ stale = TRUE
    /\ lastSync = [r \in Repos |-> "never"]
    /\ fetch = "idle"
    /\ cooling = FALSE

-----------------------------------------------------------------------------
(* Priming                                                                 *)

PrimeLists ==
    /\ prime.pc = "listing"
    /\ \/ known' = TRUE /\ listed' = granted
       \/ UNCHANGED listVars
    /\ prime' = [prime EXCEPT !.pc = "reading"]
    /\ UNCHANGED <<forgeVars, storeVars, sync, cacheVars, woeVars, stale, lastSync, fetch, cooling>>

Synced == {r \in listed : lastSync[r] # "never"}

\* The entry will be as old as the repository whose last sync is the oldest.
PrimeReads ==
    /\ prime.pc = "reading"
    /\ prime' = [pc |-> "read", got |-> Stored(listed),
                 fresh |-> Synced # {} /\ \A r \in Synced : lastSync[r] = "recent"]
    /\ UNCHANGED <<syncVars, stale, lastSync, fetch, cooling>>

Primed == prime' = [Unprimed EXCEPT !.pc = "done"]

SeedsOver == Known(prime.got) # {}           \* seeded bug: a seed overwrites a live fetch

\* Only an empty cache is filled, and only with something.
Seeds == ~cached /\ Known(prime.got) # {}

PrimeSeeds ==
    /\ prime.pc = "read"
    /\ Primed
    /\ IF Seeds
       THEN cached' = TRUE /\ shown' = prime.got /\ stale' = ~prime.fresh
       ELSE UNCHANGED <<cacheVars, stale>>
    /\ UNCHANGED <<forgeVars, storeVars, listVars, sync, woeVars, lastSync, fetch, cooling>>

PrimeFails ==
    /\ prime.pc = "reading"
    /\ Fault
    /\ Primed
    /\ UNCHANGED <<forgeVars, storeVars, listVars, sync, cacheVars, failures, crashes,
                   stale, lastSync, fetch, cooling>>

-----------------------------------------------------------------------------
(* Syncs                                                                   *)

\* Set before the first await.
Loading == "loading"

Starts ==
    /\ Start
    /\ fetch' = Loading
    /\ UNCHANGED <<prime, stale, lastSync, cooling>>

IsStaleWhenCached == cached /\ stale          \* seeded bug: an empty slot is not stale

IsStaleWhenEmpty == ~cached                  \* seeded bug: an entry is fresh for ever

IsStale == ~cached \/ stale

\* GET /api/stats.
EnsureFresh ==
    /\ prime.pc = "done"
    /\ IsStale
    /\ ~cooling
    /\ Starts

\* POST /api/refresh.
Refresh == Starts

\* Thrown before produce guards itself: nothing is reported, and nothing cools down.
ListRejects == ListUnavailable /\ UNCHANGED serviceVars

WalkRejects ==
    /\ WalkFails
    /\ fetch' = "error"
    /\ cooling' = TRUE
    /\ UNCHANGED <<prime, stale, lastSync>>

Records(r) ==
    /\ RecordSync(r)
    /\ lastSync' = [lastSync EXCEPT ![r] = "recent"]
    /\ UNCHANGED <<prime, stale, fetch, cooling>>

Publishes ==
    /\ Publish
    /\ stale' = FALSE
    /\ fetch' = "idle"
    /\ cooling' = FALSE
    /\ UNCHANGED <<prime, lastSync>>

OtherSteps ==
    \/ ListRepos
    \/ \E stateRead, openRead \in BOOLEAN : BeginWalk(stateRead, openRead)
    \/ \E r \in Repos : ReadPage(r)
    \/ \E short \in BOOLEAN : WalkEnds(short)
    \/ \E p \in Prs : SavePullRequest(p)
    \/ Written \/ WriteFails \/ LoadPullRequests \/ LoadFails

\* The steps that leave the service as it is.
Proceeds == OtherSteps /\ UNCHANGED serviceVars

CooldownPasses ==
    /\ cooling
    /\ cooling' = FALSE
    /\ UNCHANGED <<syncVars, prime, stale, lastSync, fetch>>

TtlPasses ==
    /\ ~stale \/ prime.fresh \/ \E r \in Repos : lastSync[r] = "recent"
    /\ stale' = TRUE
    /\ lastSync' = [r \in Repos |-> IF lastSync[r] = "recent" THEN "old" ELSE lastSync[r]]
    /\ prime' = [prime EXCEPT !.fresh = FALSE]
    /\ UNCHANGED <<syncVars, fetch, cooling>>

\* The next server boots.
Restart ==
    /\ Crash
    /\ prime' = Unprimed
    /\ stale' = TRUE
    /\ fetch' = "idle"
    /\ cooling' = FALSE
    /\ UNCHANGED lastSync

-----------------------------------------------------------------------------

Happens == Environment /\ UNCHANGED serviceVars

PrimeGoesOn == PrimeLists \/ PrimeReads \/ PrimeSeeds

SyncGoesOn == Proceeds \/ Publishes \/ \E r \in Repos : Records(r)

ServiceNext ==
    \/ Happens
    \/ PrimeGoesOn \/ PrimeFails
    \/ EnsureFresh \/ Refresh
    \/ SyncGoesOn \/ ListRejects \/ WalkRejects
    \/ CooldownPasses \/ TtlPasses
    \/ Restart

ServiceSpec == ServiceInit /\ [][ServiceNext]_statsVars

\* Dashboards poll, a dashboard that polls finds the entry stale in the end, what has begun
\* goes on, the list expires, days pass, the budget is renewed.  Nobody need press the button.
FairServiceSpec ==
    /\ ServiceSpec
    /\ WF_statsVars(EnsureFresh)
    /\ WF_statsVars(PrimeGoesOn)
    /\ WF_statsVars(SyncGoesOn)
    /\ WF_statsVars(CooldownPasses)
    /\ WF_statsVars(TtlPasses)
    /\ WF_statsVars(RefreshList /\ UNCHANGED serviceVars)
    /\ \A r \in Repos : WF_statsVars(DayPasses(r) /\ UNCHANGED serviceVars)
    /\ SF_statsVars(WalkEnds(FALSE) /\ UNCHANGED serviceVars)

-----------------------------------------------------------------------------
(* Properties                                                              *)

\* Between syncs, what is shown of a pull request is what the store has of it, whether the
\* last sync or the priming put it there, in whatever order they were begun and ended, and
\* unless a statement of the store has failed (cache.ts:16 "overwriting would move the
\* dashboard backwards").
ShownIsStored ==
    At("idle") /\ cached /\ faults = 0 => \A p \in Known(shown) : shown[p] = row[p]

\* A dashboard that asks gets an answer or the reason why there is none, again and again:
\* no crash, failure or cooldown leaves the slot empty and untried (stats-service.ts
\* ensureFresh).
VisitorsAreServed == []<>(cached \/ fetch = "error")

\* As stats-service.ts:644 has it, "A rejected refresh is reported through fetchState".  One
\* that is rejected for want of the list of repositories is not: produce throws before its try.
RejectedIsReported == At("idle") => fetch # "loading"
===============================================================================
