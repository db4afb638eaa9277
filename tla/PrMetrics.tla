------------------------------- MODULE PrMetrics -------------------------------
(***************************************************************************)
(* The figures of the dashboard, core/metrics.ts: derive makes a flat      *)
(* record of a pull request, compute makes the tables of many.  Both are   *)
(* pure; the properties range over bounded sets of inputs.                 *)
(*                                                                         *)
(* A list is a function of its positions, and what is left of it when it  *)
(* is filtered has the positions that are left.  Times and sizes are       *)
(* natural numbers and a week is a number of days; a figure that cannot be *)
(* known is Null.  A percentile is an interpolation and is given in        *)
(* hundredths; a ratio is the pair of what it divides.                     *)
(***************************************************************************)
EXTENDS Integers, Sequences, FiniteSets, FiniteSetsExt, Functions

CONSTANTS
    Null,
    Bots,
    WeekDays,          \* of a week
    InstantBelow,      \* a merge sooner than this is no delivery
    SizeBounds,        \* the upper bounds of the size buckets; the last takes what is left
    reviewLinkage,     \* the provider says which review a thread belongs to
    Base,              \* the branch merges are counted on
    Now,
    Pulls,             \* the pull requests, and the lists of them, the properties range over
    Lists

\* What is known of a pull request. Its threads are those that were fetched.
CanonicalPr(pr) ==
    /\ {pr.created, pr.size, pr.commitCount, pr.threadCount} \subseteq Nat
    /\ {pr.merged, pr.ready} \subseteq Nat \cup {Null}
    /\ pr.commits \subseteq Nat
    /\ \A r \in pr.reviews : r.at \in Nat \cup {Null}
    /\ \A t \in pr.threads : {t.resolved, t.outdated} \subseteq BOOLEAN
    /\ IsFiniteSet(pr.commits) /\ IsFiniteSet(pr.reviews) /\ IsFiniteSet(pr.threads)

ASSUME MetricsAssumption ==
    /\ Null \notin Int
    /\ WeekDays \in Nat \ {0}
    /\ SizeBounds \in Seq(Nat) \ {<<>>}
    /\ \A pr \in Pulls : CanonicalPr(pr)
    /\ Lists \subseteq Seq(Pulls)

isBot(name) == name \in Bots

\* A null author stands for itself: 'ghost'.
Size(list) == Cardinality(DOMAIN list)
Those(list, Test(_)) == RestrictValues(list, Test)
Each(list, F(_)) == [i \in DOMAIN list |-> F(list[i])]
Figures(list) == Those(list, LAMBDA x : x # Null)
Count(list, Test(_)) == Size(Those(list, Test))
Column(list, F(_)) == SumFunction(Each(list, F))

\* null on a zero denominator.
ratio(part, whole) == IF whole = 0 THEN Null ELSE <<part, whole>>

\* The n-th of the values in their order.
sorted(values, n) ==
    Min({v \in Range(values) : Cardinality({i \in DOMAIN values : values[i] <= v}) >= n})

percentile(values, p) ==
    IF DOMAIN values = {} THEN Null
    ELSE LET rank == p * (Size(values) - 1)
             low == sorted(values, 1 + rank \div 100)
             high == sorted(values, 1 + (rank + 99) \div 100)
         IN 100 * low + (high - low) * (rank % 100)

median(values) == percentile(values, 50)

-----------------------------------------------------------------------------
(* One pull request                                                        *)

\* Its threads are the ones fetched; total is the count of the provider.
threadStats(pr) ==
    LET of(Test(_)) == Cardinality({t \in pr.threads : Test(t)})
    IN [total |-> pr.threadCount,
        bot |-> of(LAMBDA t : isBot(t.author)),
        human |-> of(LAMBDA t : ~isBot(t.author)),
        resolved |-> of(LAMBDA t : t.resolved),
        unresolvedOutdated |-> of(LAMBDA t : ~t.resolved /\ t.outdated),
        unresolvedLive |-> of(LAMBDA t : ~t.resolved /\ ~t.outdated)]

\* The reviews that were submitted.
timeline(pr) == {r \in pr.reviews : r.at # Null}

Earliest(reviews) == IF reviews = {} THEN Null ELSE Min({r.at : r \in reviews})
Since(from, to) == IF from = Null \/ to = Null THEN Null ELSE to - from

firstHumanReview(pr) == Earliest({r \in timeline(pr) : ~isBot(r.author)})

derive(pr) ==
    LET firstReview == Earliest(timeline(pr))
        firstHuman == firstHumanReview(pr)
        after(mark) == IF mark = Null THEN 0 ELSE Cardinality({c \in pr.commits : c > mark})
        keys == {t.review : t \in pr.threads} \ {Null}
        lastCommit == IF pr.commits = {} THEN Null ELSE Max(pr.commits)
    IN [author |-> pr.author, base |-> pr.base, state |-> pr.state,
        created |-> pr.created, merged |-> pr.merged, size |-> pr.size,
        commitCount |-> pr.commitCount, truncated |-> pr.truncated,
        threadsOf |-> pr.threads, threads |-> threadStats(pr),
        reviews |-> {[id |-> r.key, author |-> r.author,
                      bodyOnly |-> IF reviewLinkage THEN r.key \notin keys ELSE Null] :
                         r \in pr.reviews},
        forcePushes |-> pr.forcePushes,
        firstReviewAt |-> firstReview, firstHumanReviewAt |-> firstHuman,
        commitsAfterAnyReview |-> after(firstReview),
        commitsAfterHumanReview |-> after(firstHuman),
        cycle |-> Since(pr.created, pr.merged),
        cycleFromReady |-> Since(pr.ready, pr.merged),
        firstReviewWait |-> Since(pr.created, firstReview),
        firstHumanReviewWait |-> Since(pr.created, firstHuman),
        lastCommitToMerge |-> Since(lastCommit, pr.merged)]

-----------------------------------------------------------------------------
(* The tables of many                                                      *)

weekOf(t) == t \div WeekDays

\* Every week from the first merge to the last, the quiet ones too.
weeklyMerges(merged, today) ==
    LET weeks == {weekOf(merged[i].merged) : i \in DOMAIN merged}
    IN [w \in IF weeks = {} THEN {} ELSE Min(weeks)..Max(weeks) |->
           LET those == Those(merged, LAMBDA pr : weekOf(pr.merged) = w)
           IN [merges |-> Size(those),
               loc |-> Column(those, LAMBDA pr : pr.size),
               cycleP50 |-> median(Each(those, LAMBDA pr : pr.cycle)),
               resolved |-> Column(those, LAMBDA pr : pr.threads.resolved),
               unresolvedOutdated |-> Column(those, LAMBDA pr : pr.threads.unresolvedOutdated),
               unresolvedLive |-> Column(those, LAMBDA pr : pr.threads.unresolvedLive),
               partial |-> w = weekOf(today)]]

threadsBy(pr, name) == {t \in pr.threadsOf : t.author = name}
reviewsBy(pr, name) == {r \in pr.reviews : r.author = name}

\* A review that cannot be classified nulls the column.
reviewer(merged, name) ==
    LET threads == Column(merged, LAMBDA pr : Cardinality(threadsBy(pr, name)))
        resolved == Column(merged, LAMBDA pr : Cardinality({t \in threadsBy(pr, name) : t.resolved}))
        unclear == \E i \in DOMAIN merged : \E r \in reviewsBy(merged[i], name) : r.bodyOnly = Null
    IN [isBot |-> isBot(name), threads |-> threads, resolved |-> resolved,
        reviews |-> Column(merged, LAMBDA pr : Cardinality(reviewsBy(pr, name))),
        bodyOnlyReviews |-> IF unclear THEN Null ELSE
            Column(merged, LAMBDA pr : Cardinality({r \in reviewsBy(pr, name) : r.bodyOnly})),
        prsTouched |-> Count(merged, LAMBDA pr : threadsBy(pr, name) # {} \/ reviewsBy(pr, name) # {}),
        resolvedRatio |-> ratio(resolved, threads)]

\* One row per name that opened a thread or reviewed.
reviewerTable(merged) ==
    LET names(pr) == {t.author : t \in pr.threadsOf} \cup {r.author : r \in pr.reviews}
    IN [name \in UNION {names(merged[i]) : i \in DOMAIN merged} |-> reviewer(merged, name)]

\* seeded bug: only people have a row
PeopleTable(merged) ==
    [name \in {merged[i].author : i \in DOMAIN merged} \ Bots |->
        LET own == Those(merged, LAMBDA pr : pr.author = name)
        IN [merged |-> Size(own), threadsReceived |-> Column(own, LAMBDA pr : pr.threads.total)]]

authorTable(merged) ==
    [name \in {merged[i].author : i \in DOMAIN merged} |->
        LET own == Those(merged, LAMBDA pr : pr.author = name)
            received == Column(own, LAMBDA pr : pr.threads.total)
            settled == Column(own, LAMBDA pr : pr.threads.resolved)
        IN [isBot |-> isBot(name), merged |-> Size(own),
            medianSize |-> median(Each(own, LAMBDA pr : pr.size)),
            medianCommits |-> median(Each(own, LAMBDA pr : pr.commitCount)),
            cycleP50 |-> median(Each(own, LAMBDA pr : pr.cycle)),
            reworkRatio |-> ratio(Count(own, LAMBDA pr : pr.commitsAfterHumanReview > 0), Size(own)),
            threadsReceived |-> received,
            unresolvedRatio |-> ratio(received - settled, received)]]

\* The first bucket whose bound is above the size, or the last.
sizeBucket(size) ==
    LET above == {b \in DOMAIN SizeBounds : size < SizeBounds[b]}
    IN IF above = {} THEN Len(SizeBounds) ELSE Min(above)

sizeHistogram(merged) ==
    [b \in DOMAIN SizeBounds |-> Count(merged, LAMBDA pr : sizeBucket(pr.size) = b)]

commitsHistogram(merged) ==
    LET key(pr) == Min({pr.commitCount, 10})
    IN [n \in {key(merged[i]) : i \in DOMAIN merged} |-> Count(merged, LAMBDA pr : key(pr) = n)]

mergedTo(all, base) == Those(all, LAMBDA pr : pr.merged # Null /\ pr.base = base)

threadTotals(merged) ==
    [total |-> Column(merged, LAMBDA pr : pr.threads.total),
     bot |-> Column(merged, LAMBDA pr : pr.threads.bot),
     human |-> Column(merged, LAMBDA pr : pr.threads.human),
     resolved |-> Column(merged, LAMBDA pr : pr.threads.resolved),
     unresolvedOutdated |-> Column(merged, LAMBDA pr : pr.threads.unresolvedOutdated),
     unresolvedLive |-> Column(merged, LAMBDA pr : pr.threads.unresolvedLive)]

withAnyReview(merged) == Those(merged, LAMBDA pr : pr.firstReviewAt # Null)
withHumanReview(merged) == Those(merged, LAMBDA pr : pr.firstHumanReviewAt # Null)

cycleTimes(merged) ==
    LET measured(F(_)) == Figures(Each(merged, F))
        cycles == Each(merged, LAMBDA pr : pr.cycle)
    IN [p50 |-> percentile(cycles, 50), p90 |-> percentile(cycles, 90),
        p50FromReady |-> median(measured(LAMBDA pr : pr.cycleFromReady)),
        firstReviewWaitP50 |-> median(Each(withAnyReview(merged), LAMBDA pr : pr.firstReviewWait)),
        firstHumanReviewWaitP50 |->
            median(Each(withHumanReview(merged), LAMBDA pr : pr.firstHumanReviewWait)),
        lastCommitToMergeP50 |-> median(measured(LAMBDA pr : pr.lastCommitToMerge))]

\* Of the reviewed pull requests, how many had commits after the review, and how many.
reworked(commits) ==
    [prs |-> Size(commits), after |-> Count(commits, LAMBDA n : n > 0), medianCommits |-> median(commits)]

rework(merged) ==
    [any |-> reworked(Each(withAnyReview(merged), LAMBDA pr : pr.commitsAfterAnyReview)),
     human |-> reworked(Each(withHumanReview(merged), LAMBDA pr : pr.commitsAfterHumanReview)),
     forcePushes |-> IF \E i \in DOMAIN merged : merged[i].forcePushes = Null THEN Null
                     ELSE Column(merged, LAMBDA pr : pr.forcePushes)]

compute(all, base, today) ==
    LET merged == mergedTo(all, base)
        at == DOMAIN merged
        weekly == weeklyMerges(merged, today)
        complete == Those(weekly, LAMBDA w : ~w.partial)
        totals == threadTotals(merged)
    IN [counts |-> [all |-> Size(all), mergedToBase |-> Size(merged),
                    open |-> Count(all, LAMBDA pr : pr.state = "open"),
                    closedUnmerged |-> Count(all, LAMBDA pr : pr.state = "closed")],
        truncated |-> Count(all, LAMBDA pr : pr.truncated),
        window |-> IF at = {} THEN Null ELSE <<merged[Max(at)].merged, merged[Min(at)].merged>>,
        threads |-> totals,
        unresolvedThreadRatio |-> ratio(totals.total - totals.resolved, totals.total),
        mergesPerWeek |-> median(Each(complete, LAMBDA w : w.merges)),
        botThreadsPerPr |-> ratio(totals.bot, Size(merged)),
        humanThreadsPerPr |-> ratio(totals.human, Size(merged)),
        weekly |-> weekly, cycle |-> cycleTimes(merged), rework |-> rework(merged),
        size |-> sizeHistogram(merged),
        medianSize |-> median(Each(merged, LAMBDA pr : pr.size)),
        commits |-> commitsHistogram(merged),
        reviewers |-> reviewerTable(merged), authors |-> authorTable(merged),
        instantMerges |-> Count(merged, LAMBDA pr : pr.cycle < InstantBelow)]

-----------------------------------------------------------------------------
(* Properties                                                              *)

\* The provider counts every thread, those too that it did not send. A thread that was deleted may be
\* stored and no longer counted.
CountsItsThreads(pr) == Cardinality(pr.threads) <= pr.threadCount

\* Every merged pull request and every fetched thread is counted once in every table: by week, by
\* author, by size and by commits; by who opened it, by the class of who did, and by its state. No
\* week is missing, and the nine-tenths percentile is not below the median. Where all threads are
\* counted no more of them are resolved than there are.
\* (compute, whose tables each walk the list on their own.)
TablesAgree ==
    \A list \in Lists : \A stats \in {compute(Each(list, derive), Base, Now)} :
        LET n == stats.counts.mergedToBase
            threads == stats.threads
            fetched == threads.bot + threads.human
        IN /\ n = Cardinality({i \in DOMAIN list : list[i].merged # Null /\ list[i].base = Base})
           /\ n = Column(stats.weekly, LAMBDA w : w.merges)
           /\ n = Column(stats.authors, LAMBDA a : a.merged)
           /\ n = Column(stats.size, LAMBDA b : b) /\ n = Column(stats.commits, LAMBDA c : c)
           /\ fetched = threads.resolved + threads.unresolvedOutdated + threads.unresolvedLive
           /\ fetched = Column(stats.reviewers, LAMBDA r : r.threads)
           /\ threads.total = Column(stats.authors, LAMBDA a : a.threadsReceived)
           /\ threads.resolved = Column(stats.weekly, LAMBDA w : w.resolved)
           /\ (\A i \in DOMAIN list : CountsItsThreads(list[i])) => threads.resolved <= threads.total
           /\ Cardinality(DOMAIN stats.weekly) =
                  IF n = 0 THEN 0 ELSE 1 + Max(DOMAIN stats.weekly) - Min(DOMAIN stats.weekly)
           /\ n > 0 => stats.cycle.p50 <= stats.cycle.p90

\* What is said of reviews by people is part of what is said of all reviews: the first of them is no
\* earlier than the first of all, and a commit after it is a commit after that one; so the rework after
\* a human review never exceeds the rework after any.
HumanIsPartOfAny ==
    /\ \A pr \in Pulls :
           LET d == derive(pr) IN
           d.firstHumanReviewAt # Null =>
               /\ d.firstReviewAt # Null /\ d.firstReviewAt <= d.firstHumanReviewAt
               /\ d.commitsAfterHumanReview <= d.commitsAfterAnyReview
    /\ \A list \in Lists :
           LET after == compute(Each(list, derive), Base, Now).rework
           IN after.human.prs <= after.any.prs /\ after.human.after <= after.any.after

=============================================================================
