------------------------------- MODULE Answers -------------------------------
(***************************************************************************)
(* What a request for the dashboard is answered with, by                   *)
(* StatsService.current: the tables of the pull requests (PrMetrics) and   *)
(* the work that is credited to them (Attribution).                        *)
(***************************************************************************)
EXTENDS Attribution, PrMetrics

\* The figures depend on no state: they are compared once, before anything happens, in the initial
\* state in which all sessions report as they should.
Once == now = 0 /\ \A s \in Sessions : kind[s] = "window"

\* Every merged pull request and every thread is counted once in every table of compute, over lists of
\* any pull requests, and what derive says of reviews by people is part of what it says of all reviews:
\* see PrMetrics (metrics.ts compute and derive).
FiguresAgree == Once => TablesAgree /\ HumanIsPartOfAny
=============================================================================
