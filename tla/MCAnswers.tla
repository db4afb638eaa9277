------------------------------- MODULE MCAnswers -------------------------------
(***************************************************************************)
(* An instance of Answers for TLC.                                         *)
(***************************************************************************)
EXTENDS Answers, TLC

CONSTANTS s1, s2, main, topic, dev, rel, ann, bot

\* Two branches of a repository, and one of the same name in another.
MCPlaces == {<<1, main>>, <<2, main>>, <<2, topic>>}
\* At most one session of the two reports otherwise than it should.
MCReports ==
    {k \in [Sessions -> {"window", "session", "hookless"}] :
         Cardinality({s \in Sessions : k[s] # "window"}) <= 1}
Symmetric == Permutations({s1, s2})

Reviews == {[key |-> 1, author |-> ann, at |-> 4], [key |-> 2, author |-> bot, at |-> 3],
            [key |-> 3, author |-> ann, at |-> Null]}
Threads == {[id |-> 1, author |-> ann, review |-> 1, resolved |-> TRUE, outdated |-> TRUE],
            [id |-> 2, author |-> bot, review |-> Null, resolved |-> FALSE, outdated |-> TRUE],
            [id |-> 3, author |-> bot, review |-> 2, resolved |-> FALSE, outdated |-> FALSE]}

Pull(author, base, state, merged, reviews, threads, commits, lost) ==
    [author |-> author, base |-> base, state |-> state, created |-> 1, merged |-> merged, ready |-> Null,
     commits |-> commits, commitCount |-> Cardinality(commits) + lost, reviews |-> reviews,
     threads |-> threads, threadCount |-> Cardinality(threads) + lost, size |-> 3 * Cardinality(commits),
     forcePushes |-> lost, truncated |-> lost > 0]

\* Two of its three threads were deleted since they were fetched.
Outnumbered ==
    [Pull(ann, dev, "merged", 6, {}, {[t EXCEPT !.resolved = TRUE] : t \in Threads}, {2}, 0)
        EXCEPT !.threadCount = 1]

\* Lists of three, of bots and people, reviewed or not, on two branches, weeks apart ...
Some ==
    <<Outnumbered,
      Pull(bot, dev, "merged", 2, {}, Threads, {1}, 2), Pull(ann, dev, "merged", 5, Reviews, {}, {4, 5}, 0),
      Pull(ann, dev, "merged", 20, Reviews, Threads, {2, 3, 4}, 0), Pull(ann, rel, "merged", 9, {}, Threads, {}, 1),
      Pull(bot, dev, "open", Null, Reviews, Threads, {1}, 0), Pull(ann, dev, "closed", Null, {}, {}, {}, 1)>>

\* (in one order: the tables are sums over the positions of a list)
Picks(n) == {f \in [1..n -> DOMAIN Some] : \A i \in 2..n : f[i - 1] <= f[i]}

\* ... and every history of one pull request.
MCPulls ==
    Range(Some) \cup {Pull(ann, dev, "open", Null, rs, {}, cs, 0) : rs \in SUBSET Reviews, cs \in SUBSET (1..5)}

MCLists == UNION {{[i \in 1..n |-> Some[f[i]]] : f \in Picks(n)} : n \in 0..3}
MCBots == {bot}
MCSizeBounds == <<4, 7>>
=============================================================================
