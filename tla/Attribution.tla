------------------------------ MODULE Attribution ------------------------------
(***************************************************************************)
(* Whose pull request the work of an agent session is credited to: the     *)
(* join of core/telemetry.ts, and the ranges of core/range.ts it is asked  *)
(* for.  Around it, the world its inputs come from: pull requests are      *)
(* opened from branches, merged and closed, sessions work on branches and  *)
(* name the pull requests they open.  Nothing of an answer is stored:      *)
(* current computes it from what there is at that moment.                  *)
(*                                                                         *)
(* A place is a pair of a repository and a branch.  A unit of work counts  *)
(* 1, and is the only figure of a session modelled.                        *)
(***************************************************************************)
EXTENDS Integers, Sequences, FiniteSets, FiniteSetsExt, Functions

CONSTANTS
    None,
    Sessions,
    Places,
    Reports,      \* how the sessions may report: by increments ("window"), as one total
                  \* ("session"), or without the hook ("hookless")
    Repos,        \* the repositories of the dashboard
    WeekLength,
    MaxTime,
    MaxPrs
ASSUME AttributionAssumption ==
    /\ {MaxTime, MaxPrs} \subseteq Nat /\ WeekLength \in Nat \ {0}
    /\ \A p \in Places : p[1] \in Nat
    /\ None \notin Repos \cup Nat \cup (Nat \X Nat)
    /\ Reports \subseteq [Sessions -> {"window", "session", "hookless"}]

VARIABLES
    now,
    kind,      \* how each session reports
    prs,       \* the pull requests, the newest first
    work,      \* the units of work done
    links      \* the pull requests the sessions' transcripts name

vars == <<now, kind, prs, work, links>>

Init ==
    /\ now = 0
    /\ kind \in Reports
    /\ prs = <<>>
    /\ work = {} /\ links = {}

-----------------------------------------------------------------------------
(* The world                                                               *)

prKey(pr) == <<pr.place[1], pr.number>>

\* One more than that of the newest one of the repository.
NextNumber(repo) ==
    LET own == {i \in DOMAIN prs : prs[i].place[1] = repo}
    IN IF own = {} THEN 1 ELSE 1 + prs[Min(own)].number

\* By hand, or by a session at work, whose transcript then names it.
Open(p, by) ==
    /\ by = None \/ \E w \in work : w.session = by
    /\ now < MaxTime /\ Len(prs) < MaxPrs
    /\ now' = now + 1
    /\ LET pr == [place |-> p, number |-> NextNumber(p[1]),
                  created |-> now', state |-> "open", merged |-> None]
       IN /\ prs' = <<pr>> \o prs
          /\ links' = links \cup {[session |-> s, pr |-> prKey(pr), at |-> now'] : s \in {by} \cap Sessions}
    /\ UNCHANGED <<kind, work>>

\* No two at the same moment.
Merge(i) ==
    /\ prs[i].state = "open"
    /\ \A j \in DOMAIN prs : prs[j].merged # now
    /\ prs' = [prs EXCEPT ![i].state = "merged", ![i].merged = now]
    /\ UNCHANGED <<now, kind, work, links>>

Close(i) ==
    /\ prs[i].state = "open"
    /\ prs' = [prs EXCEPT ![i].state = "closed"]
    /\ UNCHANGED <<now, kind, work, links>>

Work(s, p) ==
    /\ now < MaxTime
    /\ now' = now + 1
    /\ work' = work \cup {[session |-> s, place |-> p, at |-> now']}
    /\ UNCHANGED <<kind, prs, links>>

Next ==
    \/ \E p \in Places, by \in Sessions \cup {None} : Open(p, by)
    \/ \E p \in Places, s \in Sessions : Work(s, p)
    \/ \E i \in DOMAIN prs : Merge(i) \/ Close(i)

Spec == Init /\ [][Next]_vars

-----------------------------------------------------------------------------
(* What fetchRollups reads of it: see Telemetry                            *)

Of(s) == {w \in work : w.session = s}
Held(s) == {w.place : w \in Of(s)}
Starts(s, p) == Min({w.at : w \in {x \in Of(s) : x.place = p}})
Ends(s, p) ==
    LET seen == Max({w.at : w \in {x \in Of(s) : x.place = p}})
        later == {Starts(s, q) : q \in {x \in Held(s) : Starts(s, x) > Starts(s, p)}}
    IN IF later = {} THEN seen ELSE Min({seen, Min(later) - 1})

\* One record per session ...
Rollup(s) ==
    [session |-> s, tokens |-> Cardinality(Of(s)),
     repo |-> IF kind[s] = "hookless" THEN None ELSE Min({p[1] : p \in Held(s)}),
     from |-> Min({w.at : w \in Of(s)}), to |-> Max({w.at : w \in Of(s)})]

\* By branch, whatever its repository: branches of one name are each credited with the work of all.
OnBranch(s, branch) ==
    {w \in Of(s) : \E p \in Held(s) : p[2] = branch /\ w.at \in Starts(s, p)..Ends(s, p)}

\* ... and one per branch it held; null tokens when the session cannot be divided.
Split(s, p) ==
    [session |-> s, place |-> p, from |-> Starts(s, p), to |-> Ends(s, p),
     tokens |-> CASE Cardinality(Held(s)) = 1 -> Cardinality(Of(s))
                  [] Cardinality(Held(s)) # 1 /\ kind[s] = "session" -> None
                  [] OTHER -> Cardinality(OnBranch(s, p[2]))]

Everything ==
    LET active == {s \in Sessions : Of(s) # {}}
    IN [sessions |-> {Rollup(s) : s \in active},
        splits |-> UNION {{Split(s, p) : p \in Held(s)} : s \in {x \in active : kind[x] # "hookless"}},
        links |-> links]

-----------------------------------------------------------------------------
(* Ranges                                                                  *)

ALL_TIME == [from |-> None, to |-> None]

\* A look back from now, or from and to as they were given.
resolveRange(back) == [from |-> now - back, to |-> now + 1]

within(at, range) ==
    /\ range.from # None => at >= range.from
    /\ range.to # None => at < range.to

overlaps(x, range) ==
    /\ range.from # None => x.to >= range.from
    /\ range.to # None => x.from < range.to

\* What is left of a list keeps its order: it is the list at the positions that are left.
\* seeded bug: an open pull request belongs to the range it was opened in
FilteredByOpening(all, range) ==
    Restrict(all, {i \in DOMAIN all :
        within(IF all[i].merged # None THEN all[i].merged ELSE all[i].created, range)})

inRange(pr, range) ==
    CASE pr.merged # None -> within(pr.merged, range)
      [] pr.merged = None /\ pr.state = "open" -> range.to # None => pr.created < range.to
      [] OTHER -> within(pr.created, range)

filterPrs(all, range) == Restrict(all, {i \in DOMAIN all : inRange(all[i], range)})

filterTelemetryInput(input, range) ==
    LET sessions == {s \in input.sessions : overlaps(s, range)}
        kept == {s.session : s \in sessions}
    IN [sessions |-> sessions,
        splits |-> {x \in input.splits : x.session \in kept /\ overlaps(x, range)},
        links |-> {l \in input.links : l.session \in kept /\ within(l.at, range)}]

-----------------------------------------------------------------------------
(* attribute()                                                             *)

\* null only if nothing was measured at all.
sum(parts) ==
    LET measured == {x \in parts : x.tokens # None}
    IN IF measured = {} THEN None ELSE MapThenSumSet(LAMBDA x : x.tokens, measured)

Forever == MaxTime + 1
closesAt(pr) == IF pr.merged = None THEN Forever ELSE pr.merged

\* seeded bug: the newest one that still took work
NewestOwner(all, split) ==
    LET open == {i \in DOMAIN all : all[i].place = split.place /\ closesAt(all[i]) >= split.from}
    IN IF open = {} THEN None ELSE prKey(all[Min(open)])

\* Of the pull requests of the branch that still took work when the split began, the one that closed
\* first; the order of the list decides a tie.
owner(all, split) ==
    LET open == {i \in DOMAIN all : all[i].place = split.place /\ closesAt(all[i]) >= split.from}
    IN IF open = {} THEN None
       ELSE LET first == Min({closesAt(all[i]) : i \in open})
            IN prKey(all[Min({i \in open : closesAt(all[i]) = first})])

\* Every week from the first to the last, the quiet ones too.
weeklySeries(sessions) ==
    LET week(s) == s.from \div WeekLength
        weeks == {week(s) : s \in sessions}
    IN [w \in IF weeks = {} THEN {} ELSE Min(weeks)..Max(weeks) |->
           LET those == {s \in sessions : week(s) = w}
           IN [sessions |-> Cardinality(those), tokens |-> sum(those)]]

\* The pull requests a session names, of those that are in the answer.
named(all, input, repos, s) ==
    {l.pr : l \in {x \in input.links : x.session = s /\ x.pr[1] \in repos}}
        \cap {prKey(all[i]) : i \in DOMAIN all}

\* seeded bug: a linked session is matched by its branches too
EverySplit(input, names) == {x \in input.splits : x.session \in DOMAIN names}

\* A linked session is accounted for by what it names, and not by its branches.
unlinked(input, names) ==
    {x \in input.splits : x.session \in DOMAIN names /\ names[x.session] = {}}

\* A pull request's row: what names it outright and what its branch matched.
row(linked, matched, ambiguous) ==
    LET parts == linked \cup matched
        count == Cardinality({x.session : x \in parts})
    IN CASE ambiguous -> [attribution |-> "shared", sessions |-> 0, tokens |-> None]
         [] ~ambiguous /\ parts = {} -> [attribution |-> "none", sessions |-> 0, tokens |-> None]
         [] ~ambiguous /\ \E x \in matched : x.tokens = None ->
                [attribution |-> "shared", sessions |-> count, tokens |-> None]
         [] OTHER -> [attribution |-> IF linked # {} THEN "linked" ELSE "exact",
                      sessions |-> count, tokens |-> sum(parts)]

attribute(all, input, repos) ==
    LET inScope == {s \in input.sessions : s.repo \in repos}
        scoped == {s.session : s \in inScope}
        names == [s \in scoped |-> named(all, input, repos, s)]
        splits == unlinked(input, names)
        owners == [x \in splits |-> owner(all, x)]
        orphans == {x \in splits : owners[x] = None}
        keys == {prKey(all[i]) : i \in DOMAIN all}
        several == {s \in scoped : Cardinality(names[s]) > 1}
        rows == [k \in keys |->
            row({s \in inScope : names[s.session] = {k}}, {x \in splits : owners[x] = k},
                \E s \in several : k \in names[s])]
    IN [totals |-> [sessions |-> Cardinality(inScope), tokens |-> sum(inScope)],
        prs |-> rows,
        unmatched |-> [sessions |-> Cardinality({x.session : x \in orphans}), tokens |-> sum(orphans),
                       branches |-> {x.place : x \in orphans}],
        prsWithoutTelemetry |-> Cardinality({k \in keys : rows[k].attribution = "none"}),
        sharedSessions |-> Cardinality(several)
            + Cardinality({x.session : x \in {y \in splits : y.tokens = None}}),
        linkedSessions |-> Cardinality({s \in scoped : Cardinality(names[s]) = 1}),
        otherRepoSessions |-> Cardinality({s \in input.sessions : s.repo # None /\ s.repo \notin repos}),
        sessionsWithoutHook |-> Cardinality({s \in input.sessions : s.repo = None}),
        weekly |-> weeklySeries(inScope)]

\* The pull requests of the range and, of what the telemetry slot holds, the sessions of the range.
current(input, range) ==
    attribute(filterPrs(prs, range), filterTelemetryInput(input, range), Repos)

-----------------------------------------------------------------------------
(* Properties                                                              *)

Ranges == {ALL_TIME} \cup {resolveRange(back) : back \in 0..now}
              \cup {[from |-> None, to |-> t] : t \in 2..now}
Figure(n) == IF n = None THEN 0 ELSE n
TokensIn(table) == MapThenSumSet(LAMBDA k : Figure(table[k].tokens), DOMAIN table)
SessionsIn(table) == MapThenSumSet(LAMBDA k : table[k].sessions, DOMAIN table)
Credited(answer) == TokensIn(answer.prs) + Figure(answer.unmatched.tokens)
Divided(s) == MapThenSumSet(LAMBDA p : Split(s, p).tokens, Held(s))

\* No session held branches of one name in two repositories: see SplitsAddUp in Telemetry.
NamesAreDistinct ==
    \A s \in Sessions : \A p, q \in Held(s) : p[2] = q[2] => p = q

\* Nothing in the way of a complete division: each session reports by increments and through the
\* hook, never came back to a branch, and names one pull request at most.
Divisible ==
    \A s \in {r.session : r \in Everything.sessions} :
        /\ kind[s] = "window"
        /\ Cardinality({l \in links : l.session = s}) <= 1
        /\ Divided(s) = Cardinality(Of(s))

\* The work of a session is credited once: in every range the rows of the pull requests and what
\* matched none add up to no more than the total, the weeks and the groups of sessions add up to
\* exactly the whole, and for all time nothing is lost where every session can be divided.  The rows
\* of an answer in which a session held branches of one name in two repositories are left out:
\* fetchRollups credits each of the two with the work of both.
AddsUp ==
    \A input \in {Everything}, range \in Ranges : \A answer \in {current(input, range)} :
        /\ NamesAreDistinct => Credited(answer) <= Figure(answer.totals.tokens)
        /\ TokensIn(answer.weekly) = Figure(answer.totals.tokens)
        /\ SessionsIn(answer.weekly) = answer.totals.sessions
        /\ answer.totals.sessions + answer.otherRepoSessions + answer.sessionsWithoutHook
               = Cardinality(filterTelemetryInput(input, range).sessions)
        /\ range = ALL_TIME /\ NamesAreDistinct /\ Divisible =>
               Credited(answer) = Figure(answer.totals.tokens)

OwnerIn(range, x) == owner(filterPrs(prs, range), x)
StateOf(k) == prs[CHOOSE i \in DOMAIN prs : prKey(prs[i]) = k].state

\* Looking at the last days only never moves work to another pull request: a split that lies in them
\* belongs there to the one it belongs to for all time, unless that one was closed without a merge.
\* (filterPrs leaves out pull requests, and owner takes the first that is left.)
RangeNeverReassigns ==
    \A back \in 0..now, x \in Everything.splits :
        LET k == OwnerIn(ALL_TIME, x)
        IN (x.from >= now - back /\ k # None) =>
               \/ StateOf(k) = "closed"
               \/ OwnerIn(resolveRange(back), x) = k

\* The owner of a split, of which attribute looks at the place and the start.
Credit(s, p) == owner(prs, [place |-> p, from |-> Starts(s, p)])

\* Work that went into a merged pull request stays there, whatever else its branch is used for later.
MergedKeepsItsWork ==
    [][\A s \in Sessions, p \in Places :
           p \in Held(s) /\ (\E i \in DOMAIN prs : prs[i].state = "merged" /\ prKey(prs[i]) = Credit(s, p))
               => Credit(s, p)' = Credit(s, p)]_vars

\* telemetry.ts:219: "a split goes to the first PR that was still open when the work happened".  The
\* code does not keep to it: one that was closed without a merge takes the branch's work for ever.
OwnerWasOpen ==
    [][\A s \in Sessions, p \in Places :
           p \notin Held(s)' \/ p \in Held(s) \/ Credit(s, p)' = None
               \/ \E i \in DOMAIN prs : prs[i].state = "open" /\ prKey(prs[i]) = Credit(s, p)']_vars

=============================================================================
