------------------------------- MODULE MCPrSync -------------------------------
(* Instances of PrSync for TLC.                                            *)
EXTENDS PrSync

CONSTANTS r1, r2

MCRepoOf == [p \in Prs |-> IF p = 3 THEN r2 ELSE r1]
===============================================================================
