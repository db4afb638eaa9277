---------------------------- MODULE MCStatsService ----------------------------
(* Instances of StatsService for TLC.                                      *)
EXTENDS StatsService

CONSTANTS r1, r2

MCRepoOf == [p \in Prs |-> IF p = 3 THEN r2 ELSE r1]
===============================================================================
